---------------------------- MODULE Spec2Model ----------------------------
(***************************************************************************)
(* Research orchestration engine of src/main.py: the LeadResearchAgent     *)
(* pipeline (conduct_research, _execute_research_plan), its rate limiter   *)
(* (_rate_limit), its retry policy (_retry_with_backoff) and its execution *)
(* tracer (_log_execution).                                                *)
(*                                                                         *)
(* Time is counted in seconds. The program reads the clock only to take   *)
(* differences, so the model keeps the differences: the time since the     *)
(* cursor was set (time.time() - self.last_api_call, kept up to            *)
(* rate_limit_delay, beyond which the code does not tell values apart),    *)
(* and for every pending asyncio.sleep the time it still lasts.            *)
(* A failure message str(e) is modelled by the set of the markers it       *)
(* contains, so that the substring test `"500" in str(e)` is `"500" \in m`.*)
(***************************************************************************)
EXTENDS Integers, Sequences, FiniteSets, TLC

VARIABLES
    time_since_last_call, \* time.time() - self.last_api_call (the shared cursor)
    execution_trace,     \* LeadResearchAgent.execution_trace
    performance_metrics, \* LeadResearchAgent.performance_metrics
    max_retries,         \* argument of the _retry_with_backoff call under study
    base_delay,          \* argument of the _retry_with_backoff call under study
    rt,                  \* the frame of the _retry_with_backoff call under study
    callers,             \* the frames of the _rate_limit calls under study
    acquires,            \* the returns of the _rate_limit calls under study
    pc,                  \* where conduct_research is
    research_calls,      \* number of conduct_research calls made so far
    user_input,          \* conduct_research's user_input
    raised,              \* the exception conduct_research raised
    requirements,        \* the ResearchRequirement of the call
    plan,                \* the ResearchPlan of the call (plan.tasks)
    tasks,               \* the coroutines handed to asyncio.gather
    cit,                 \* the frame of the citation loop's current iteration
    join_index,          \* the loop variable of the loop over gather's results
    results,             \* _execute_research_plan's results dict
    final_report,        \* what conduct_research returns
    stages,              \* the stages the call has entered, in order
    failures,            \* number of capability failures so far
    completion_calls,    \* the starts of the text-completion calls of the call
    content,             \* _extract_sources's content, as its lines
    sources,             \* what _extract_sources returns
    url,                 \* _assess_source_quality's url
    title,               \* _assess_source_quality's title
    quality_score,       \* what _assess_source_quality returns
    conflicts,           \* _categorize_conflicts's conflicts
    categories,          \* what _categorize_conflicts returns
    summary,             \* what get_execution_summary returned
    resolution,          \* what _resolve_conflicts returns
    elapsed              \* time since the first of the _rate_limit calls under study began

-----------------------------------------------------------------------------
(* Program constants *)

\* self.rate_limit_delay = 7
rate_limit_delay == 7
\* def _retry_with_backoff(self, func, max_retries=3, base_delay=5)
default_max_retries == 3
default_base_delay == 5

(* Bounds of the model *)

\* largest max_retries explored for a _retry_with_backoff call under study
MaxRetries == 3

-----------------------------------------------------------------------------
(* Failures *)

\* the markers a failure message may carry
Markers == {"500", "INTERNAL", "429", "quota"}

\* the failure messages the capability raises in the model: no marker, or
\* one marker, or the usual text of a rate-limit answer (429 and quota)
Messages == {{}, {"500"}, {"INTERNAL"}, {"429"}, {"quota"}, {"429", "quota"}}

\* the message carries a marker of a failure the user is told will be
\* retried: `"500" in error_msg or "INTERNAL" in error_msg`,
\* `"429" in error_msg or "quota" in error_msg.lower()`
HasTransientSignature(msg) == msg \cap Markers # {}

NoException == [kind |-> "none", msg |-> {}, attempts |-> 0]
\* the exception object e raised by func()
OperationError(msg) == [kind |-> "operation", msg |-> msg, attempts |-> 0]
\* Exception(f"Failed after {max_retries} attempts")
FailedAfter(n) == [kind |-> "failed_after", msg |-> {}, attempts |-> n]

\* if "500" in str(e) or "INTERNAL" in str(e) or "429" in str(e)
IsTransientMutRetryAll(msg) == TRUE
IsTransient(msg) == "500" \in msg \/ "INTERNAL" \in msg \/ "429" \in msg

\* delay = base_delay * (2 ** attempt)
BackoffDelayMutConstant(base, attempt) == base
BackoffDelayMutRateLimited(base, attempt) ==
    IF base * (2 ^ attempt) > rate_limit_delay
    THEN base * (2 ^ attempt)
    ELSE rate_limit_delay
BackoffDelay(base, attempt) == base * (2 ^ attempt)

-----------------------------------------------------------------------------
(* _retry_with_backoff, as transitions of its frame.                       *)
(*   st      where the coroutine is: "calling" (awaiting func()),          *)
(*           "backoff" (awaiting asyncio.sleep(delay)), "returned",        *)
(*           "raised", or "none" (not called)                              *)
(*   attempt the loop variable                                             *)
(*   sleep_left  what is left of the pending asyncio.sleep                 *)
(*   calls   number of times func() was invoked                            *)
(*   sleeps  the delays passed to asyncio.sleep, in order                  *)
(*   errs    the messages of the failures func() raised, in order          *)
(*   exc     the exception the call raised                                 *)

NoRetry ==
    [st |-> "none", attempt |-> 0, sleep_left |-> 0, calls |-> 0,
     sleeps |-> <<>>, errs |-> <<>>, exc |-> NoException]

\* entry: `for attempt in range(max_retries)`; an empty range falls through
\* to the final raise
RetryEnter(maxr) ==
    IF maxr >= 1
    THEN [NoRetry EXCEPT !.st = "calling", !.calls = 1]
    ELSE [NoRetry EXCEPT !.st = "raised", !.exc = FailedAfter(maxr)]

\* `return await func()` when func() returns
RetryOnReturn(r) == [r EXCEPT !.st = "returned"]

\* the `except Exception as e` branch
RetryOnFailure(r, msg, maxr, base) ==
    IF IsTransient(msg) /\ r.attempt < maxr - 1
    THEN [r EXCEPT !.st = "backoff",
                   !.sleep_left = BackoffDelay(base, r.attempt),
                   !.sleeps = Append(@, BackoffDelay(base, r.attempt)),
                   !.errs = Append(@, msg)]
    ELSE [r EXCEPT !.st = "raised",
                   !.errs = Append(@, msg),
                   !.exc = OperationError(msg)]

\* asyncio.sleep(delay) is over: `continue`, next iteration calls func()
RetryOnWake(r) ==
    [r EXCEPT !.st = "calling", !.attempt = @ + 1, !.calls = @ + 1]


-----------------------------------------------------------------------------
(* _rate_limit *)

RateLimitSleepTimeMutShort(since_last_call) ==
    IF since_last_call < rate_limit_delay
    THEN rate_limit_delay - since_last_call - 1
    ELSE 0

\* sleep_time = self.rate_limit_delay - time_since_last_call, when the test
\* `time_since_last_call < self.rate_limit_delay` passes; 0 stands for the
\* branch that does not sleep
RateLimitSleepTime(since_last_call) ==
    IF since_last_call < rate_limit_delay
    THEN rate_limit_delay - since_last_call
    ELSE 0

-----------------------------------------------------------------------------
(* The passing of one second *)

Min(a, b) == IF a <= b THEN a ELSE b

\* a time difference one second later, kept up to rate_limit_delay
Older(since) == Min(since + 1, rate_limit_delay)

CountDownMutStuck(left) == left

\* what is left of a sleep one second later
CountDown(left) == IF left > 0 THEN left - 1 ELSE 0

\* a record of events (returns of _rate_limit, starts of text-completion
\* calls): how many there were, the time since the latest, and whether each
\* came at least rate_limit_delay after the one before; once two came
\* closer than that, the time since the latest is no longer kept
NoEvents == [n |-> 0, since |-> 0, spaced |-> TRUE]

EventAt(events) ==
    [n |-> events.n + 1, since |-> 0,
     spaced |-> events.spaced /\ (events.n = 0 \/ events.since >= rate_limit_delay)]

EventsOlder(events) ==
    IF events.spaced THEN [events EXCEPT !.since = Older(@)] ELSE events

-----------------------------------------------------------------------------
(* _log_execution *)

\* an entry of execution_trace; `num` is the task number formatted into the
\* action name (0 when the name has none); duration is <<>> for None and
\* <<d>> for a given d
TraceEntry(agent, action, num, duration, success) ==
    [agent |-> agent, action |-> action, num |-> num,
     duration |-> duration, success |-> success]

TraceAfterMutWindow(trace, es) ==
    LET all == trace \o es
    IN SubSeq(all, IF Len(all) > 10 THEN Len(all) - 9 ELSE 1, Len(all))

\* self.execution_trace.append(log_entry), for each entry of es in order
TraceAfter(trace, es) == trace \o es

\* the counters a new agent name starts with
NewMetrics ==
    [total_calls |-> 0, successful_calls |-> 0, total_duration |-> 0,
     average_duration |-> <<0, 1>>]

\* the counters of `agent` after one more entry; average_duration is the
\* quotient total_duration / total_calls kept as <<numerator, denominator>>
MetricsAfterMutAllSuccessful(m, duration, success) ==
    [total_calls |-> m.total_calls + 1,
     successful_calls |-> m.successful_calls + 1,
     total_duration |-> m.total_duration,
     average_duration |-> m.average_duration]
MetricsAfter(m, duration, success) ==
    LET d == IF duration = <<>> THEN 0 ELSE duration[1]
        calls == m.total_calls + 1
    IN [total_calls |-> calls,
        successful_calls |-> m.successful_calls + (IF success THEN 1 ELSE 0),
        total_duration |-> m.total_duration + d,
        average_duration |-> IF d # 0 THEN <<m.total_duration + d, calls>>
                                      ELSE m.average_duration]

\* self.performance_metrics after _log_execution
LogMetrics(metrics, agent, duration, success) ==
    LET old == IF agent \in DOMAIN metrics THEN metrics[agent] ELSE NewMetrics
    IN [a \in DOMAIN metrics \cup {agent} |->
            IF a = agent THEN MetricsAfter(old, duration, success)
                         ELSE metrics[a]]

\* the empty dict {}
EmptyMetrics == [a \in {} |-> NewMetrics]

-----------------------------------------------------------------------------
(* Specification SpecRetry: one _retry_with_backoff call, for every        *)
(* max_retries in 0..MaxRetries, on an operation that on each call either  *)
(* returns or raises a failure with any of the Messages.                   *)

NoCallers == [c \in {} |-> 0]

\* the arguments and results of the function calls under study
call_vars ==
    <<content, sources, url, title, quality_score, conflicts, categories,
      summary, resolution>>

function_vars == <<call_vars, elapsed>>

\* no function call is under study
NoFunctionCall ==
    /\ content = <<>>
    /\ sources = <<>>
    /\ url = {}
    /\ title = {}
    /\ quality_score = <<>>
    /\ conflicts = <<>>
    /\ categories = <<>>
    /\ summary = <<>>
    /\ resolution = <<>>
    /\ elapsed = 0

\* the orchestrator's fields
orchestrator_vars ==
    <<time_since_last_call, execution_trace, performance_metrics>>

retry_vars == <<max_retries, base_delay, rt>>

pipeline_vars ==
    <<pc, research_calls, user_input, requirements, plan, tasks, cit,
      join_index, results, final_report, stages, failures, completion_calls,
      raised>>

\* what _execute_research_plan neither reads nor writes, or only reads
fixed_vars ==
    <<max_retries, base_delay, rt, callers, acquires, research_calls,
      user_input, requirements, plan>>

\* the values the pipeline's variables have before any conduct_research call
NoPipeline ==
    /\ pc = "idle"
    /\ research_calls = 0
    /\ user_input = {}
    /\ raised = NoException
    /\ requirements = [research_depth |-> "None"]
    /\ plan = <<>>
    /\ tasks = <<>>
    /\ cit = <<>>
    /\ join_index = 0
    /\ results = [search_results |-> <<>>, reflection_results |-> <<>>,
                  citations |-> <<>>]
    /\ final_report = <<>>
    /\ stages = <<>>
    /\ failures = 0
    /\ completion_calls = NoEvents

InitRetry ==
    /\ time_since_last_call \in 0..rate_limit_delay
    /\ acquires = NoEvents
    /\ execution_trace = <<>>
    /\ performance_metrics = EmptyMetrics
    /\ max_retries \in 0..MaxRetries
    /\ base_delay \in {1, default_base_delay}
    /\ rt = NoRetry
    /\ callers = NoCallers
    /\ NoPipeline
    /\ NoFunctionCall

\* await self._retry_with_backoff(func, max_retries, base_delay)
RetryCall ==
    /\ rt.st = "none"
    /\ rt' = RetryEnter(max_retries)
    /\ UNCHANGED <<function_vars, orchestrator_vars, max_retries, base_delay, callers,
                   acquires, pipeline_vars>>

\* func() returns
OperationReturns ==
    /\ rt.st = "calling"
    /\ rt' = RetryOnReturn(rt)
    /\ UNCHANGED <<function_vars, orchestrator_vars, max_retries, base_delay, callers,
                   acquires, pipeline_vars>>

\* func() raises a failure
OperationRaises ==
    /\ rt.st = "calling"
    /\ \E msg \in Messages :
          rt' = RetryOnFailure(rt, msg, max_retries, base_delay)
    /\ UNCHANGED <<function_vars, orchestrator_vars, max_retries, base_delay, callers,
                   acquires, pipeline_vars>>

\* the backoff sleep is over
BackoffWake ==
    /\ rt.st = "backoff"
    /\ rt.sleep_left = 0
    /\ rt' = RetryOnWake(rt)
    /\ UNCHANGED <<function_vars, orchestrator_vars, max_retries, base_delay, callers,
                   acquires, pipeline_vars>>

\* a second passes while the coroutine awaits asyncio.sleep
RetryTick ==
    /\ rt.st = "backoff"
    /\ rt.sleep_left > 0
    /\ rt' = [rt EXCEPT !.sleep_left = CountDown(@)]
    /\ time_since_last_call' = Older(time_since_last_call)
    /\ UNCHANGED <<function_vars, execution_trace, performance_metrics, max_retries,
                   base_delay, callers, acquires, pipeline_vars>>

NextRetry ==
    \/ RetryCall
    \/ OperationReturns
    \/ OperationRaises
    \/ BackoffWake
    \/ RetryTick

vars ==
    <<orchestrator_vars, max_retries, base_delay, rt, callers, acquires,
      pipeline_vars, function_vars>>

SpecRetry == InitRetry /\ [][NextRetry]_vars

-----------------------------------------------------------------------------
(* Specification SpecRateLimit: MaxCallers coroutines of one orchestrator  *)
(* call _rate_limit, each at any time, so that any number of them are      *)
(* inside it together.                                                     *)
(*   st          "created" (not called yet), "sleeping" (awaiting          *)
(*               asyncio.sleep(sleep_time)) or "returned"                  *)
(*   sleep_left  what is left of the sleep                                 *)

\* callers of _rate_limit
MaxCallers == 3

NewCaller == [st |-> "created", sleep_left |-> 0]

\* the longest time kept since the first call began: that of MaxCallers
\* calls each a whole rate_limit_delay after the one before
MaxElapsed == MaxCallers * rate_limit_delay

InitRateLimit ==
    /\ time_since_last_call = rate_limit_delay
    /\ acquires = NoEvents
    /\ execution_trace = <<>>
    /\ performance_metrics = EmptyMetrics
    /\ max_retries = default_max_retries
    /\ base_delay = default_base_delay
    /\ rt = NoRetry
    /\ callers = [c \in 1..MaxCallers |-> NewCaller]
    /\ NoPipeline
    /\ NoFunctionCall

\* a caller enters _rate_limit: it reads the clock and the cursor, and
\* either suspends in asyncio.sleep(sleep_time) or, not sleeping, sets the
\* cursor and returns
RateLimitCall ==
    \E c \in DOMAIN callers :
        /\ callers[c].st = "created"
        /\ IF RateLimitSleepTime(time_since_last_call) > 0
           THEN /\ callers' = [callers EXCEPT ![c] =
                      [st |-> "sleeping",
                       sleep_left |-> RateLimitSleepTime(time_since_last_call)]]
                /\ UNCHANGED <<time_since_last_call, acquires>>
           ELSE /\ callers' = [callers EXCEPT ![c].st = "returned"]
                /\ time_since_last_call' = 0
                /\ acquires' = EventAt(acquires)
        /\ UNCHANGED <<function_vars, execution_trace, performance_metrics,
                       retry_vars, pipeline_vars>>

\* a caller's sleep is over: self.last_api_call = time.time(), and it returns
RateLimitWake ==
    \E c \in DOMAIN callers :
        /\ callers[c].st = "sleeping"
        /\ callers[c].sleep_left = 0
        /\ callers' = [callers EXCEPT ![c].st = "returned"]
        /\ time_since_last_call' = 0
        /\ acquires' = EventAt(acquires)
        /\ UNCHANGED <<function_vars, execution_trace, performance_metrics,
                       retry_vars, pipeline_vars>>

\* a second passes while some caller has not returned
RateLimitTick ==
    /\ \E c \in DOMAIN callers : callers[c].st # "returned"
    /\ time_since_last_call' = Older(time_since_last_call)
    /\ acquires' = EventsOlder(acquires)
    /\ callers' = [c \in DOMAIN callers |->
                      [callers[c] EXCEPT !.sleep_left = CountDown(@)]]
    /\ elapsed' = IF \E c \in DOMAIN callers : callers[c].st # "created"
                  THEN Min(elapsed + 1, MaxElapsed)
                  ELSE elapsed
    /\ UNCHANGED <<call_vars, execution_trace, performance_metrics,
                   retry_vars, pipeline_vars>>

NextRateLimit ==
    \/ RateLimitCall
    \/ RateLimitWake
    \/ RateLimitTick

SpecRateLimit == InitRateLimit /\ [][NextRateLimit]_vars


-----------------------------------------------------------------------------
(* The pipeline: requirement parsing, planning, results *)

(* Bounds of the pipeline's model *)

\* capability failures per orchestrator
MaxFailures == 2
\* sources a search returns
MaxSources == 1

\* a question is modelled by the set of the marker phrases it contains
UserInputs == {{"compare"}, {}}

\* the failure messages the capability raises in the pipeline's model
PipelineMessages == {{"429"}, {}}

ParseResearchDepthMutBasic(question) ==
    IF question \cap {"compare", "analyze", "evaluate", "comprehensive",
                      "detailed"} # {}
    THEN "deep"
    ELSE IF question \cap {"what is", "define", "explain"} # {}
         THEN "standard"
         ELSE "basic"

\* _parse_requirements: research_depth
ParseResearchDepth(question) ==
    IF question \cap {"compare", "analyze", "evaluate", "comprehensive",
                      "detailed"} # {}
    THEN "deep"
    ELSE IF question \cap {"what is", "define", "explain"} # {}
         THEN "standard"
         ELSE "standard"

PlanTaskMutUnknownKind(id, agent) ==
    [id |-> id, agent |-> IF agent = "Citations" THEN "Citation" ELSE agent]

\* a task of the plan: {"id": ..., "agent": ...}
PlanTask(id, agent) == [id |-> id, agent |-> agent]

\* _parse_plan: tasks
ParsePlan(research_depth) ==
    IF research_depth = "basic"
    THEN <<PlanTask("search_basic", "Search"),
           PlanTask("synthesize_basic", "Reflection")>>
    ELSE IF research_depth = "standard"
    THEN <<PlanTask("search_comprehensive", "Search"),
           PlanTask("analyze_sources", "Reflection"),
           PlanTask("create_citations", "Citations")>>
    ELSE <<PlanTask("search_primary", "Search"),
           PlanTask("search_secondary", "Search"),
           PlanTask("analyze_conflicts", "Reflection"),
           PlanTask("synthesize_findings", "Reflection"),
           PlanTask("create_citations", "Citations")>>

\* [task for task in plan.tasks if task['agent'] == agent]
TasksOf(p, agent) == SelectSeq(p, LAMBDA t : t.agent = agent)

\* a Citation as _extract_sources builds it: id = len(sources)+1, author and
\* publication_date left at their default None
NewCitation(k) == [id |-> k, author |-> "None", publication_date |-> "None"]

\* the sources of a search that extracted n of them
ExtractedSources(n) == [k \in 1..n |-> NewCitation(k)]

RECURSIVE Concat(_)
\* the concatenation of a sequence of sequences
Concat(ss) == IF ss = <<>> THEN <<>> ELSE Head(ss) \o Concat(Tail(ss))

AllSourcesMutFirstOnly(res) ==
    IF res.search_results = <<>> THEN <<>> ELSE res.search_results[1].sources

\* all_sources: for search_result in results["search_results"]:
\*                  all_sources.extend(search_result.sources)
AllSources(res) ==
    Concat([i \in 1..Len(res.search_results) |-> res.search_results[i].sources])

\* create_citations: citation.author = "Unknown"; publication_date = "2024"
Enhanced(c) == [c EXCEPT !.author = "Unknown", !.publication_date = "2024"]

\* the search results after create_citations went over all_sources, whose
\* elements are the Citation objects of the search results themselves
EnhancedResults(search_results) ==
    [i \in 1..Len(search_results) |->
        [search_results[i] EXCEPT
            !.sources = [k \in 1..Len(@) |-> Enhanced(@[k])]]]

RECURSIVE Successful(_)
\* successful = sum(1 for entry in self.execution_trace
\*                  if entry.get("success", False))
Successful(trace) ==
    IF trace = <<>> THEN 0
    ELSE (IF Head(trace).success THEN 1 ELSE 0) + Successful(Tail(trace))

\* _calculate_success_rate: the quotient successful / total kept as
\* <<successful, total>>; <<0, 1>> is the 0.0 returned for an empty trace
SuccessCountMutAllCounted(trace) ==
    IF trace = <<>> THEN <<0, 1>> ELSE <<Len(trace), Len(trace)>>
SuccessCount(trace) ==
    IF trace = <<>> THEN <<0, 1>> ELSE <<Successful(trace), Len(trace)>>

\* self.execution_trace[-10:]
LastEntries(trace) ==
    SubSeq(trace, IF Len(trace) > 10 THEN Len(trace) - 9 ELSE 1, Len(trace))

\* get_execution_summary
ExecutionSummary(trace, metrics) ==
    [total_operations |-> Len(trace),
     execution_trace |-> LastEntries(trace),
     performance_metrics |-> metrics,
     success_rate |-> SuccessCount(trace)]

\* _create_final_report and the execution summary conduct_research adds:
\* the counts the report shows
CreateFinalReport(res, trace) ==
    LET all_content == Len(res.search_results) + Len(res.reflection_results)
        all_sources == AllSources(res)
    IN <<[key_findings |-> Min(all_content, 5),
          detailed_results |-> Min(all_content, 3),
          references |-> Min(Len(all_sources), 10),
          sources_found |-> Len(all_sources),
          total_operations |-> Len(trace),
          success_rate |-> SuccessCount(trace)]>>

\* stream_callback is an input of every step that awaits it: it is None
\* (`if stream_callback:` skips the call), or it returns, or it raises.
\* CallbackFault(k) are the positions at which it may raise among the k
\* groups of callback calls of a step; 0: it is None or returns every time
CallbackFault(k) == 0..k

\* the exception a stream_callback raises
CallbackError == [kind |-> "callback", msg |-> {}, attempts |-> 0]


-----------------------------------------------------------------------------
(* Frames of the coroutines search_task_wrapper and reflection_task_wrapper*)
(* and of one iteration of the citation loop.                              *)
(*   st      "created" (not started), "rate_limit" (awaiting the sleep of  *)
(*           _rate_limit), "retry" (inside _retry_with_backoff),           *)
(*           "returned" or "raised"                                        *)
(*   sleep_left  what is left of the sleep of _rate_limit                  *)
(*   r       the frame of its _retry_with_backoff call                     *)
(*   content the search result whose content a reflection task was bound   *)
(*           to, named by the number of the search task that produced it   *)
(*   sources the sources of the ResearchResult a search task returned      *)

NewTask(kind, num, search_content) ==
    [kind |-> kind, num |-> num, st |-> "created", sleep_left |-> 0,
     r |-> NoRetry,
     content |-> search_content, sources |-> <<>>]

\* the statements after `await self._rate_limit()`: the wrapper enters
\* _retry_with_backoff with the default max_retries and base_delay
PassedRateLimit(frame) ==
    [frame EXCEPT !.st = "retry", !.r = RetryEnter(default_max_retries)]

\* _rate_limit up to its first suspension, or through it when it does not
\* sleep
EnterRateLimit(frame, since_last_call) ==
    IF RateLimitSleepTime(since_last_call) > 0
    THEN [frame EXCEPT !.st = "rate_limit",
                       !.sleep_left = RateLimitSleepTime(since_last_call)]
    ELSE PassedRateLimit(frame)

\* a wrapper is over: of its frame, gather keeps the result it returned
Returned(frame, found) ==
    [frame EXCEPT !.st = "returned", !.r = RetryOnReturn(NoRetry),
                  !.sources = found]

\* a wrapper is over: of its frame, gather keeps the exception it raised
Raised(frame, r) ==
    [frame EXCEPT !.st = "raised",
                  !.r = [NoRetry EXCEPT !.st = "raised", !.exc = r.exc]]

\* the frame after its worker call raised and _retry_with_backoff went to
\* r: it sleeps before another attempt, or has raised
AfterFailure(frame, r) ==
    IF r.st = "raised" THEN Raised(frame, r) ELSE [frame EXCEPT !.r = r]

\* the agent name and the action name of the handoff entries of a task
WorkerAgent(kind) ==
    IF kind = "Search" THEN "SearchAgent"
    ELSE IF kind = "Reflection" THEN "ReflectionAgent" ELSE "CitationsAgent"

HandoffTo(kind) ==
    IF kind = "Search" THEN "handoff_to_search"
    ELSE IF kind = "Reflection" THEN "handoff_to_reflection"
    ELSE "handoff_to_citations"

\* an entry logged with the default duration=None
Entry(agent, action, num, success) ==
    TraceEntry(agent, action, num, <<>>, success)

RECURSIVE LogMetricsAll(_, _)
\* performance_metrics after _log_execution of each entry of es, in order
LogMetricsAll(metrics, es) ==
    IF es = <<>> THEN metrics
    ELSE LogMetricsAll(
             LogMetrics(metrics, Head(es).agent, Head(es).duration,
                        Head(es).success),
             Tail(es))

\* the _log_execution calls of a step, in order
Log(es) ==
    /\ execution_trace' = TraceAfter(execution_trace, es)
    /\ performance_metrics' = LogMetricsAll(performance_metrics, es)

BatchDoneMutAny == \E i \in DOMAIN tasks : tasks[i].st \in {"returned", "raised"}

\* every coroutine of the batch has returned or raised: asyncio.gather
\* (return_exceptions=True) returns
BatchDone == \A i \in DOMAIN tasks : tasks[i].st \in {"returned", "raised"}

-----------------------------------------------------------------------------
(* Specification Spec: one conduct_research call *)

Init ==
    /\ time_since_last_call = rate_limit_delay
    /\ acquires = NoEvents
    /\ execution_trace = <<>>
    /\ performance_metrics = EmptyMetrics
    /\ max_retries = default_max_retries
    /\ base_delay = default_base_delay
    /\ rt = NoRetry
    /\ callers = NoCallers
    /\ NoPipeline
    /\ NoFunctionCall

\* conduct_research goes on at p
GotoMutSkip(p) == pc' = "finish" /\ UNCHANGED raised
Goto(p) == pc' = p /\ UNCHANGED raised

\* conduct_research raises exc
RaiseMutSwallow(exc) == pc' = "finish" /\ raised' = exc
Raise(exc) == pc' = "raised" /\ raised' = exc

\* conduct_research goes on at p unless a stream_callback raised (f # 0)
GotoUnless(f, p) == IF f = 0 THEN Goto(p) ELSE Raise(CallbackError)

\* conduct_research is called; it runs to the Runner.run of
\* gather_requirements
StartResearch ==
    /\ pc = "idle"
    /\ \E q \in UserInputs, f \in CallbackFault(2) :
          /\ research_calls' = research_calls + 1
          /\ user_input' = q
          /\ Log(IF f = 1 THEN <<>>
                 ELSE <<Entry("LeadResearchAgent",
                              "handoff_to_requirement_gathering", 0, TRUE)>>)
          /\ stages' = IF f = 1 THEN <<>> ELSE <<"Gathering">>
          /\ GotoUnless(f, "gathering")
          /\ completion_calls' = IF f = 0 THEN EventAt(NoEvents) ELSE NoEvents
    /\ UNCHANGED <<function_vars, time_since_last_call, retry_vars, callers, acquires,
                   requirements, plan, tasks, cit, join_index, results,
                   final_report, failures>>

\* Runner.run of gather_requirements returns; conduct_research runs to the
\* Runner.run of create_plan
GatherReturns ==
    /\ pc = "gathering"
    /\ requirements' = [research_depth |-> ParseResearchDepth(user_input)]
    /\ \E f \in CallbackFault(3) :
          /\ Log(SubSeq(<<Entry("RequirementGatheringAgent",
                                "handoff_back_to_lead", 0, TRUE),
                          Entry("LeadResearchAgent", "handoff_to_planning",
                                0, TRUE)>>,
                        1, CASE f = 1 -> 0 [] f = 2 -> 1 [] OTHER -> 2))
          /\ stages' = IF f \in {1, 2} THEN stages ELSE Append(stages, "Planning")
          /\ GotoUnless(f, "planning")
          /\ completion_calls' =
                IF f = 0 THEN EventAt(completion_calls) ELSE completion_calls
    /\ UNCHANGED <<function_vars, time_since_last_call, retry_vars, callers, acquires,
                   research_calls, user_input, plan, tasks, cit, join_index,
                   results, final_report, failures>>

\* Runner.run of gather_requirements raises: conduct_research raises
GatherRaises ==
    /\ pc = "gathering"
    /\ failures < MaxFailures
    /\ failures' = failures + 1
    /\ \E msg \in PipelineMessages : Raise(OperationError(msg))
    /\ UNCHANGED <<function_vars, orchestrator_vars, fixed_vars, tasks, cit, join_index,
                   results, final_report, stages, completion_calls>>

\* Runner.run of create_plan returns; conduct_research runs into
\* _execute_research_plan
PlanReturns ==
    /\ pc = "planning"
    /\ plan' = ParsePlan(requirements.research_depth)
    /\ \E f \in CallbackFault(2) :
          /\ Log(SubSeq(<<Entry("PlanningAgent", "handoff_back_to_lead", 0, TRUE),
                          Entry("LeadResearchAgent",
                                "handoff_to_research_execution", 0, TRUE)>>,
                        1, CASE f = 1 -> 0 [] f = 2 -> 1 [] OTHER -> 2))
          /\ stages' = IF f = 0 THEN Append(stages, "Executing") ELSE stages
          /\ GotoUnless(f, "search_launch")
    /\ UNCHANGED <<function_vars, time_since_last_call, retry_vars, callers, acquires,
                   research_calls, user_input, requirements, tasks, cit,
                   join_index, results, final_report, failures,
                   completion_calls>>

\* Runner.run of create_plan raises: conduct_research raises
PlanRaises ==
    /\ pc = "planning"
    /\ failures < MaxFailures
    /\ failures' = failures + 1
    /\ \E msg \in PipelineMessages : Raise(OperationError(msg))
    /\ UNCHANGED <<function_vars, orchestrator_vars, fixed_vars, tasks, cit, join_index,
                   results, final_report, stages, completion_calls>>

-----------------------------------------------------------------------------
(* _execute_research_plan: the search batch and the reflection batch *)

\* `if search_tasks:` the coroutines search_task_wrapper are created and
\* handed to asyncio.gather
LaunchSearch ==
    /\ pc = "search_launch"
    /\ LET search_tasks == TasksOf(plan, "Search") IN
        IF search_tasks = <<>>
        THEN /\ Goto("reflection_launch")
             /\ UNCHANGED <<tasks, join_index>>
        ELSE \E f \in CallbackFault(1) :
                /\ GotoUnless(f, "search_batch")
                /\ tasks' = IF f = 0
                            THEN [i \in 1..Len(search_tasks) |->
                                     NewTask("Search", i, 0)]
                            ELSE tasks
                /\ join_index' = IF f = 0 THEN 1 ELSE join_index
    /\ UNCHANGED <<function_vars, orchestrator_vars, fixed_vars, cit, results, final_report,
                   stages, failures, completion_calls>>

\* what a wrapper does once _rate_limit has let it through, when frame is
\* its frame after the step: the cursor is set, the handoff is logged and
\* the first call of the worker starts
AfterRateLimit(frame) ==
    IF frame.st = "retry"
    THEN /\ time_since_last_call' = 0
         /\ Log(<<Entry("LeadResearchAgent", HandoffTo(frame.kind),
                        frame.num, TRUE)>>)
         /\ completion_calls' = EventAt(completion_calls)
    ELSE UNCHANGED <<orchestrator_vars, completion_calls>>

\* a wrapper starts: the event loop starts the coroutines of a batch in the
\* order they were handed to gather; it runs into _rate_limit
TaskStart ==
    \E i \in DOMAIN tasks :
        /\ pc \in {"search_batch", "reflection_batch"}
        /\ tasks[i].st = "created"
        /\ \A k \in 1..(i - 1) : tasks[k].st # "created"
        /\ LET frame == EnterRateLimit(tasks[i], time_since_last_call) IN
              /\ tasks' = [tasks EXCEPT ![i] = frame]
              /\ AfterRateLimit(frame)
        /\ UNCHANGED <<function_vars, fixed_vars, pc, raised, cit, join_index, results,
                       final_report, stages, failures>>

\* the sleep of _rate_limit is over: self.last_api_call = time.time()
TaskRateLimitWake ==
    \E i \in DOMAIN tasks :
        /\ pc \in {"search_batch", "reflection_batch"}
        /\ tasks[i].st = "rate_limit"
        /\ tasks[i].sleep_left = 0
        /\ LET frame == PassedRateLimit(tasks[i]) IN
              /\ tasks' = [tasks EXCEPT ![i] = frame]
              /\ AfterRateLimit(frame)
        /\ UNCHANGED <<function_vars, fixed_vars, pc, raised, cit, join_index, results,
                       final_report, stages, failures>>

\* the worker call (search_agent.search, reflection_agent.reflect) returns:
\* the wrapper logs the handoff back and returns the result
TaskCallReturns ==
    \E i \in DOMAIN tasks :
        /\ pc \in {"search_batch", "reflection_batch"}
        /\ tasks[i].st = "retry"
        /\ tasks[i].r.st = "calling"
        /\ \E n \in (IF tasks[i].kind = "Search" THEN 0..MaxSources ELSE {0}) :
              tasks' = [tasks EXCEPT
                           ![i] = Returned(@, ExtractedSources(n))]
        /\ Log(<<Entry(WorkerAgent(tasks[i].kind), "handoff_back_to_lead",
                       tasks[i].num, TRUE)>>)
        /\ UNCHANGED <<function_vars, time_since_last_call, fixed_vars, pc, raised, cit,
                       join_index, results, final_report, stages, failures,
                       completion_calls>>

\* the worker call raises: _retry_with_backoff sleeps before another
\* attempt, or raises and so does the wrapper
TaskCallRaises ==
    \E i \in DOMAIN tasks :
        /\ pc \in {"search_batch", "reflection_batch"}
        /\ tasks[i].st = "retry"
        /\ tasks[i].r.st = "calling"
        /\ failures < MaxFailures
        /\ failures' = failures + 1
        /\ \E msg \in PipelineMessages :
            LET r == RetryOnFailure(tasks[i].r, msg, default_max_retries,
                                    default_base_delay)
            IN tasks' = [tasks EXCEPT ![i] = AfterFailure(@, r)]
        /\ UNCHANGED <<function_vars, orchestrator_vars, fixed_vars, pc, raised, cit,
                       join_index, results, final_report, stages,
                       completion_calls>>

\* the backoff sleep of a wrapper's _retry_with_backoff is over: the worker
\* is called again
TaskBackoffWake ==
    \E i \in DOMAIN tasks :
        /\ pc \in {"search_batch", "reflection_batch"}
        /\ tasks[i].st = "retry"
        /\ tasks[i].r.st = "backoff"
        /\ tasks[i].r.sleep_left = 0
        /\ tasks' = [tasks EXCEPT ![i].r = RetryOnWake(@)]
        /\ completion_calls' = EventAt(completion_calls)
        /\ UNCHANGED <<function_vars, orchestrator_vars, fixed_vars, pc, raised, cit,
                       join_index, results, final_report, stages, failures>>

\* one iteration of a loop over gather's results, for the task at
\* join_index: a result is appended to results[key] and logged as
\* completed, an exception is logged as failed; after the last iteration
\* the function goes on at `after`
JoinStep(agent, completed, failed, after, joined) ==
    LET t == tasks[join_index]
        ok == t.st = "returned"
    IN
    /\ results' = IF ok THEN joined ELSE results
    /\ \E f \in CallbackFault(1) :
        /\ Log(IF f = 1 THEN <<>>
               ELSE <<Entry(agent, IF ok THEN completed ELSE failed,
                            join_index, ok)>>)
        /\ GotoUnless(f, IF join_index < Len(tasks) THEN pc ELSE after)
        /\ join_index' = CASE f = 1 -> join_index
                           [] join_index < Len(tasks) -> join_index + 1
                           [] OTHER -> 0
        /\ tasks' = IF f = 0 /\ join_index = Len(tasks) THEN <<>> ELSE tasks
    /\ UNCHANGED <<function_vars, time_since_last_call, fixed_vars, cit, final_report,
                   stages, failures, completion_calls>>

SearchResultJoinedMutFront(res, t) ==
    [res EXCEPT !.search_results =
        <<[task |-> t.num, sources |-> t.sources]>> \o @]

\* results["search_results"].append(result), result being what the search
\* task of frame t returned
SearchResultJoined(res, t) ==
    [res EXCEPT !.search_results =
        Append(@, [task |-> t.num, sources |-> t.sources])]

\* one iteration of `for i, result in enumerate(search_results)`
JoinSearch ==
    /\ pc = "search_batch"
    /\ BatchDone
    /\ JoinStep("SearchAgent", "search_task_completed", "search_task_failed",
                "reflection_launch",
                SearchResultJoined(results, tasks[join_index]))

BoundResultMutUnbound(search_results, i) == [task |-> 0, sources |-> <<>>]

\* results["search_results"][i % len(results["search_results"])], the
\* result a reflection task is bound to, i being the task's number
\* (enumerate(reflection_tasks, 1)); Python indexes from 0
BoundResult(search_results, i) ==
    search_results[(i % Len(search_results)) + 1]

\* `if reflection_tasks and results["search_results"]:` the coroutines
\* reflection_task_wrapper are created, each bound to the content of a
\* search result, and handed to asyncio.gather
LaunchReflection ==
    /\ pc = "reflection_launch"
    /\ LET reflection_tasks == TasksOf(plan, "Reflection") IN
        IF reflection_tasks = <<>> \/ results.search_results = <<>>
        THEN /\ Goto("citations_launch")
             /\ UNCHANGED <<tasks, join_index>>
        ELSE \E f \in CallbackFault(1) :
                /\ GotoUnless(f, "reflection_batch")
                /\ tasks' = IF f = 0
                            THEN [i \in 1..Len(reflection_tasks) |->
                                    NewTask("Reflection", i,
                                        BoundResult(results.search_results, i).task)]
                            ELSE tasks
                /\ join_index' = IF f = 0 THEN 1 ELSE join_index
    /\ UNCHANGED <<function_vars, orchestrator_vars, fixed_vars, cit, results, final_report,
                   stages, failures, completion_calls>>

\* one iteration of `for i, result in enumerate(reflection_results)`
JoinReflection ==
    /\ pc = "reflection_batch"
    /\ BatchDone
    /\ JoinStep("ReflectionAgent", "reflection_task_completed",
                "reflection_task_failed", "citations_launch",
                [results EXCEPT !.reflection_results =
                    Append(@, [task |-> tasks[join_index].num,
                               content |-> tasks[join_index].content])])

-----------------------------------------------------------------------------
(* _execute_research_plan: the citation loop; conduct_research's end *)

\* `if citation_tasks:` all_sources is built; `if all_sources:` the loop
\* over the citation tasks is entered
LaunchCitations ==
    /\ pc = "citations_launch"
    /\ LET citation_tasks == TasksOf(plan, "Citations")
           enter == AllSources(results) # <<>>
       IN
        IF citation_tasks = <<>>
        THEN /\ Goto("finish")
             /\ UNCHANGED <<cit, join_index>>
        ELSE \E f \in CallbackFault(1) :
                /\ GotoUnless(f, IF enter THEN "citations_loop" ELSE "finish")
                /\ cit' = IF f = 0 /\ enter
                          THEN <<NewTask("Citations", 1, 0)>>
                          ELSE cit
                /\ join_index' = IF f = 0 /\ enter THEN 1 ELSE join_index
    /\ UNCHANGED <<function_vars, orchestrator_vars, fixed_vars, tasks, results,
                   final_report, stages, failures, completion_calls>>

\* an iteration of the citation loop starts: it runs into _rate_limit
CitationStart ==
    /\ pc = "citations_loop"
    /\ cit[1].st = "created"
    /\ \E f \in CallbackFault(1) :
        /\ GotoUnless(f, pc)
        /\ IF f = 1
           THEN UNCHANGED <<cit, orchestrator_vars, completion_calls>>
           ELSE LET frame == EnterRateLimit(cit[1], time_since_last_call) IN
                   /\ cit' = <<frame>>
                   /\ AfterRateLimit(frame)
    /\ UNCHANGED <<function_vars, fixed_vars, tasks, join_index, results, final_report,
                   stages, failures>>

\* the sleep of the iteration's _rate_limit is over
CitationRateLimitWake ==
    /\ pc = "citations_loop"
    /\ cit[1].st = "rate_limit"
    /\ cit[1].sleep_left = 0
    /\ LET frame == PassedRateLimit(cit[1]) IN
          /\ cit' = <<frame>>
          /\ AfterRateLimit(frame)
    /\ UNCHANGED <<function_vars, fixed_vars, pc, raised, tasks, join_index, results,
                   final_report, stages, failures>>

\* create_citations returns all_sources, its elements enhanced in place:
\* results["citations"].extend(citations), the handoff back is logged, and
\* the loop goes to its next iteration or ends
CitationCallReturns ==
    /\ pc = "citations_loop"
    /\ cit[1].st = "retry"
    /\ cit[1].r.st = "calling"
    /\ LET enhanced == EnhancedResults(results.search_results) IN
          results' = [results EXCEPT
                         !.search_results = enhanced,
                         !.citations = @ \o AllSources([results EXCEPT
                                             !.search_results = enhanced])]
    /\ Log(<<Entry("CitationsAgent", "handoff_back_to_lead", join_index, TRUE)>>)
    /\ LET more == join_index < Len(TasksOf(plan, "Citations")) IN
        \E f \in CallbackFault(1) :
            /\ GotoUnless(f, IF more THEN pc ELSE "finish")
            /\ cit' = CASE f = 1 -> <<Returned(cit[1], <<>>)>>
                        [] more -> <<NewTask("Citations", join_index + 1, 0)>>
                        [] OTHER -> <<>>
            /\ join_index' = CASE f = 1 -> join_index
                               [] more -> join_index + 1
                               [] OTHER -> 0
    /\ UNCHANGED <<function_vars, time_since_last_call, fixed_vars, tasks, final_report,
                   stages, failures, completion_calls>>

\* create_citations raises: _retry_with_backoff sleeps before another
\* attempt, or raises; nothing around the call catches what it raises
CitationCallRaises ==
    /\ pc = "citations_loop"
    /\ cit[1].st = "retry"
    /\ cit[1].r.st = "calling"
    /\ failures < MaxFailures
    /\ failures' = failures + 1
    /\ \E msg \in PipelineMessages :
        LET r == RetryOnFailure(cit[1].r, msg, default_max_retries,
                                default_base_delay)
        IN /\ cit' = <<AfterFailure(cit[1], r)>>
           /\ IF r.st = "raised" THEN Raise(r.exc) ELSE Goto(pc)
    /\ UNCHANGED <<function_vars, orchestrator_vars, fixed_vars, tasks, join_index, results,
                   final_report, stages, completion_calls>>

\* the backoff sleep of the iteration's _retry_with_backoff is over
CitationBackoffWake ==
    /\ pc = "citations_loop"
    /\ cit[1].st = "retry"
    /\ cit[1].r.st = "backoff"
    /\ cit[1].r.sleep_left = 0
    /\ cit' = <<[cit[1] EXCEPT !.r = RetryOnWake(@)]>>
    /\ completion_calls' = EventAt(completion_calls)
    /\ UNCHANGED <<function_vars, orchestrator_vars, fixed_vars, pc, raised, tasks,
                   join_index, results, final_report, stages, failures>>

\* _execute_research_plan returns; conduct_research logs the handoff back,
\* builds the report and returns it
FinishResearch ==
    /\ pc = "finish"
    /\ \E f \in CallbackFault(3) :
        LET es == IF f = 1 THEN <<>>
                  ELSE <<Entry("ResearchExecution", "handoff_back_to_lead",
                               0, TRUE)>>
        IN
          /\ Log(es)
          /\ stages' = CASE f \in {1, 2} -> stages
                         [] f = 3 -> Append(stages, "Synthesizing")
                         [] OTHER -> stages \o <<"Synthesizing", "Done">>
          /\ final_report' =
                IF f = 0 THEN CreateFinalReport(results, execution_trace \o es)
                ELSE final_report
          /\ GotoUnless(f, "done")
    /\ UNCHANGED <<function_vars, time_since_last_call, fixed_vars, tasks, cit, join_index,
                   results, failures, completion_calls>>

\* a frame one second later
FrameOlder(frame) ==
    [frame EXCEPT !.sleep_left = CountDown(@), !.r.sleep_left = CountDown(@)]

\* some coroutine awaits a capability call or a sleep
Suspended ==
    \/ pc \in {"gathering", "planning"}
    \/ /\ pc \in {"search_batch", "reflection_batch"}
       /\ \E i \in DOMAIN tasks : tasks[i].st \in {"rate_limit", "retry"}
    \/ /\ pc = "citations_loop"
       /\ cit[1].st \in {"rate_limit", "retry"}

\* a second passes; the clock moves while a capability call or a sleep is
\* awaited (the statements between two awaits take no time)
Tick ==
    /\ Suspended
    /\ time_since_last_call' = Older(time_since_last_call)
    /\ completion_calls' = EventsOlder(completion_calls)
    /\ tasks' = [i \in DOMAIN tasks |-> FrameOlder(tasks[i])]
    /\ cit' = [i \in DOMAIN cit |-> FrameOlder(cit[i])]
    /\ UNCHANGED <<function_vars, execution_trace, performance_metrics, fixed_vars, pc,
                   raised, join_index, results, final_report, stages,
                   failures>>

Next ==
    \/ StartResearch
    \/ GatherReturns
    \/ GatherRaises
    \/ PlanReturns
    \/ PlanRaises
    \/ LaunchSearch
    \/ TaskStart
    \/ TaskRateLimitWake
    \/ TaskCallReturns
    \/ TaskCallRaises
    \/ TaskBackoffWake
    \/ JoinSearch
    \/ LaunchReflection
    \/ JoinReflection
    \/ LaunchCitations
    \/ CitationStart
    \/ CitationRateLimitWake
    \/ CitationCallReturns
    \/ CitationCallRaises
    \/ CitationBackoffWake
    \/ FinishResearch
    \/ Tick

Spec == Init /\ [][Next]_vars

-----------------------------------------------------------------------------
(* Properties of _rate_limit and of the spacing of the capability calls *)

\* C1: concurrent callers of _rate_limit serialize on the cursor: no two of
\* them return from it within rate_limit_delay seconds of each other.
C1_NoTwoReturnsWithinDelay == acquires.spaced

\* C2: during a conduct_research call, any two calls of the text-completion
\* capability start at least rate_limit_delay seconds apart, whichever
\* stage or task issues them.
C2_CompletionCallsSpaced == completion_calls.spaced

-----------------------------------------------------------------------------
(* Properties of _retry_with_backoff *)

\* every failure the operation raised so far carries a transient signature
AllTransientSignature == \A i \in DOMAIN rt.errs : HasTransientSignature(rt.errs[i])

\* C3: an operation that raises a failure with a transient signature on
\* every call is invoked exactly max_retries times, for every
\* max_retries >= 1, before _retry_with_backoff fails.
C3_AlwaysTransientMakesMaxAttempts ==
    (max_retries >= 1 /\ rt.st = "raised" /\ AllTransientSignature)
        => rt.calls = max_retries

\* C4: after max_retries transient failures, what _retry_with_backoff raises
\* is an exhausted-retries failure, distinct from the operation's own
\* failure, that carries the attempt count.
C4_ExhaustedRetriesIsDistinct ==
    (/\ max_retries >= 1
     /\ rt.st = "raised"
     /\ Len(rt.errs) = max_retries
     /\ \A i \in DOMAIN rt.errs : IsTransient(rt.errs[i]))
        => (rt.exc.kind = "failed_after" /\ rt.exc.attempts = max_retries)

\* C5: a failure without a transient signature propagates at the attempt
\* where it occurs: it is the last failure, the call has raised it
\* unchanged, and no attempt and no sleep followed it, be it on the first
\* attempt or after earlier transient failures.
C5_FatalPropagatesImmediately ==
    \A i \in DOMAIN rt.errs :
        ~HasTransientSignature(rt.errs[i])
            => /\ i = Len(rt.errs)
               /\ rt.st = "raised"
               /\ rt.exc = OperationError(rt.errs[i])
               /\ rt.calls = i
               /\ Len(rt.sleeps) = i - 1
               /\ rt.sleep_left = 0

\* a fatal failure came after a transient one was retried
C5_Witness ==
    /\ rt.st = "raised"
    /\ Len(rt.errs) = 2
    /\ IsTransient(rt.errs[1])
    /\ ~HasTransientSignature(rt.errs[2])
    /\ rt.calls = 2

\* C6: the k-th sleep (k counted from 0), which follows the failure of
\* attempt k, lasts base_delay * 2^k; there is a sleep between two
\* attempts and nowhere else, so that max_retries failures make
\* max_retries - 1 sleeps.
C6_BackoffSchedule ==
    /\ \A k \in DOMAIN rt.sleeps : rt.sleeps[k] = base_delay * (2 ^ (k - 1))
    /\ Len(rt.sleeps) = IF rt.st = "backoff" THEN rt.calls
                        ELSE IF rt.calls = 0 THEN 0 ELSE rt.calls - 1
    /\ rt.st = "backoff"
          => /\ rt.attempt = Len(rt.sleeps) - 1
             /\ rt.sleep_left <= rt.sleeps[Len(rt.sleeps)]
    /\ (rt.st = "raised" /\ max_retries >= 1 /\ Len(rt.errs) = max_retries)
          => Len(rt.sleeps) = max_retries - 1

\* three failures with max_retries = 3 and base_delay = 5: slept 5, then 10
C6_Witness ==
    /\ rt.st = "raised"
    /\ max_retries = 3
    /\ base_delay = default_base_delay
    /\ Len(rt.errs) = 3
    /\ rt.sleeps = <<5, 10>>

\* C7: a failure is retried exactly when its message carries one of the
\* markers 500, INTERNAL, 429, quota (and an attempt is left).
C7_TransientIffMarker ==
    \A i \in DOMAIN rt.errs :
        i < max_retries
            => (HasTransientSignature(rt.errs[i])
                    <=> (i < Len(rt.errs) \/ rt.st = "backoff"))

-----------------------------------------------------------------------------
(* Properties of conduct_research *)

AllStages == <<"Gathering", "Planning", "Executing", "Synthesizing", "Done">>

\* where conduct_research is while _execute_research_plan runs
ExecutingPcs ==
    {"search_launch", "search_batch", "reflection_launch", "reflection_batch",
     "citations_launch", "citations_loop", "finish"}

\* C8: the stages are entered in the order Gathering, Planning, Executing,
\* Synthesizing, Done, each at most once and none skipped; the report is
\* returned (Done) only after the four stages before it.
C8_StagesInOrder ==
    /\ \E n \in 0..Len(AllStages) : stages = SubSeq(AllStages, 1, n)
    /\ pc = "gathering" => stages = SubSeq(AllStages, 1, 1)
    /\ pc = "planning" => stages = SubSeq(AllStages, 1, 2)
    /\ pc \in ExecutingPcs => stages = SubSeq(AllStages, 1, 3)
    /\ pc = "done" <=> stages = AllStages
    /\ final_report # <<>> <=> pc = "done"

\* a call went through every stage, one search task having failed
C8_Witness ==
    /\ pc = "done"
    /\ stages = AllStages
    /\ final_report # <<>>
    /\ failures > 0

\* C9: when the Runner.run of Gathering or of Planning raises,
\* conduct_research raises that failure, returns no report and starts no
\* other stage, then or later.
C9_GatheringPlanningFailureAborts ==
    [][/\ (pc \in {"gathering", "planning"} /\ raised'.kind = "operation")
            => /\ pc' = "raised"
               /\ final_report' = <<>>
               /\ stages' = stages
               /\ execution_trace' = execution_trace
       /\ pc = "raised"
            => /\ pc' = "raised"
               /\ final_report' = <<>>
               /\ stages' = stages
               /\ execution_trace' = execution_trace]_vars

\* Planning failed: conduct_research raised the failure, Executing not begun
C9_Witness ==
    /\ pc = "raised"
    /\ raised.kind = "operation"
    /\ stages = SubSeq(AllStages, 1, 2)
    /\ final_report = <<>>

\* the trace entries of the search tasks that failed
FailedSearchEntries ==
    {i \in DOMAIN execution_trace :
        execution_trace[i].action = "search_task_failed"}

\* C10: a Search task that failed is captured: it is logged once with
\* success false, it adds no result, and conduct_research does not raise
\* but goes on to Reflection, Citations and Synthesizing and returns the
\* report.
C10_FailedSearchIsIsolated ==
    FailedSearchEntries # {}
        => /\ \A i \in FailedSearchEntries :
                /\ ~execution_trace[i].success
                /\ \A j \in FailedSearchEntries :
                      execution_trace[j].num = execution_trace[i].num => j = i
                /\ \A k \in DOMAIN results.search_results :
                      results.search_results[k].task # execution_trace[i].num
           /\ pc # "raised"
           /\ pc = "done"
                => \E i \in DOMAIN execution_trace :
                      execution_trace[i].action = "handoff_to_reflection"

-----------------------------------------------------------------------------
(* Properties of the failure handling of _execute_research_plan *)

\* every Search task of the plan was joined as failed
AllSearchesFailed ==
    /\ TasksOf(plan, "Search") # <<>>
    /\ Cardinality(FailedSearchEntries) = Len(TasksOf(plan, "Search"))

\* C11: when every Search task fails, conduct_research does not abort: it
\* goes on to Done and returns a non-empty report whose source count is 0.
C11_AllSearchesFailedStillReports ==
    AllSearchesFailed
        => /\ pc # "raised"
           /\ pc = "done"
                => /\ final_report # <<>>
                   /\ final_report[1].sources_found = 0

\* every Search task of a deep plan failed and the report was returned
C11_Witness ==
    /\ AllSearchesFailed
    /\ Len(TasksOf(plan, "Search")) = 2
    /\ pc = "done"
    /\ final_report[1].sources_found = 0

\* conduct_research raised the failure of a worker task of Executing
WorkerFailureRaised ==
    /\ pc = "raised"
    /\ raised.kind = "operation"
    /\ \E i \in DOMAIN stages : stages[i] = "Executing"

\* C12: a Search, Reflection or Citations task that fails is marked failed
\* in the trace and left out of the results, and aborts neither the other
\* tasks nor the pipeline: conduct_research never raises its failure.
C12_TaskFailureDoesNotAbort ==
    /\ ~WorkerFailureRaised
    /\ \A i \in DOMAIN execution_trace :
          execution_trace[i].action \in {"search_task_failed",
                                         "reflection_task_failed"}
              => ~execution_trace[i].success
    /\ Len(results.search_results) + Cardinality(FailedSearchEntries)
          <= Len(TasksOf(plan, "Search"))

\* the worker a handoff entry of the orchestrator hands off to
HandoffWorker(action) ==
    CASE action = "handoff_to_search" -> "SearchAgent"
      [] action = "handoff_to_reflection" -> "ReflectionAgent"
      [] action = "handoff_to_citations" -> "CitationsAgent"
      [] OTHER -> "None"

\* C13: every Search, Reflection and Citations task has in the trace a
\* handoff entry of the orchestrator, logged before the worker call, and a
\* handoff-back entry of the worker, logged after it, whether the call
\* succeeded or failed (stated where all the tasks of Executing are over).
C13_HandoffEntriesPaired ==
    pc \in {"finish", "done"}
        => /\ \A i \in DOMAIN execution_trace :
                HandoffWorker(execution_trace[i].action) # "None"
                    => \E j \in DOMAIN execution_trace :
                          /\ j > i
                          /\ execution_trace[j].action = "handoff_back_to_lead"
                          /\ execution_trace[j].agent =
                                HandoffWorker(execution_trace[i].action)
                          /\ execution_trace[j].num = execution_trace[i].num
           /\ \A j \in DOMAIN execution_trace :
                (/\ execution_trace[j].action = "handoff_back_to_lead"
                 /\ execution_trace[j].num > 0)
                    => \E i \in DOMAIN execution_trace :
                          /\ i < j
                          /\ HandoffWorker(execution_trace[i].action) =
                                execution_trace[j].agent
                          /\ execution_trace[i].num = execution_trace[j].num

-----------------------------------------------------------------------------
(* Specification SpecCalls: main() puts several questions, one after the   *)
(* other, to one orchestrator; of each conduct_research call the model     *)
(* keeps the part up to the Planning call, the calls being those that      *)
(* raise there.                                                            *)

\* conduct_research calls on one orchestrator
MaxCalls == 2

\* main(): `for i, question in enumerate(test_questions, 1)`: the call has
\* raised (`except Exception as e`) or returned, the loop goes to the next
\* question with the same `system`
MainNextQuestion ==
    /\ pc \in {"done", "raised"}
    /\ research_calls < MaxCalls
    /\ pc' = "idle"
    /\ raised' = NoException
    /\ requirements' = [research_depth |-> "None"]
    /\ stages' = <<>>
    /\ completion_calls' = NoEvents
    /\ UNCHANGED <<function_vars, orchestrator_vars, retry_vars, callers,
                   acquires, research_calls, user_input, plan, tasks, cit,
                   join_index, results, final_report, failures>>

NextCalls ==
    \/ StartResearch
    \/ GatherReturns
    \/ GatherRaises
    \/ PlanRaises
    \/ MainNextQuestion

SpecCalls == Init /\ [][NextCalls]_vars

\* C14: the trace and the counters belong to one conduct_research call: when
\* a call has logged its first entry (the handoff to Gathering), the trace
\* holds that entry alone and the counters count it alone, whatever calls
\* the orchestrator served before.
C14_CallStartsWithEmptyTrace ==
    pc = "gathering"
        => /\ execution_trace =
                <<Entry("LeadResearchAgent",
                        "handoff_to_requirement_gathering", 0, TRUE)>>
           /\ DOMAIN performance_metrics = {"LeadResearchAgent"}
           /\ performance_metrics["LeadResearchAgent"].total_calls = 1

-----------------------------------------------------------------------------
(* Specification SpecTracer: any sequence of at most MaxEntries            *)
(* _log_execution calls on a new orchestrator, get_execution_summary being *)
(* called at any point. _log_execution awaits nothing, so the calls of     *)
(* concurrent coroutines come one whole call after the other.              *)

\* _log_execution calls
MaxEntries == 3

TracerAgents == {"SearchAgent", "ReflectionAgent"}

\* duration: None, 0 (which `if duration:` takes for None), or a time
TracerDurations == {<<>>, <<0>>, <<3>>}

\* self._log_execution(agent_name, action, duration, success), for any of
\* the agents and durations, on a trace of fewer than `limit` entries
LogExecutionOf(limit, agents, durations) ==
    /\ Len(execution_trace) < limit
    /\ \E agent \in agents, d \in durations, success \in BOOLEAN :
          /\ execution_trace' =
                TraceAfter(execution_trace,
                           <<TraceEntry(agent, "action", 0, d, success)>>)
          /\ performance_metrics' =
                LogMetrics(performance_metrics, agent, d, success)
    /\ UNCHANGED <<function_vars, time_since_last_call, retry_vars, callers,
                   acquires, pipeline_vars>>

LogExecution == LogExecutionOf(MaxEntries, TracerAgents, TracerDurations)

\* self.get_execution_summary()
GetExecutionSummary ==
    /\ summary' = <<ExecutionSummary(execution_trace, performance_metrics)>>
    /\ UNCHANGED <<content, sources, url, title, quality_score, conflicts,
                   categories, resolution, elapsed, orchestrator_vars, retry_vars,
                   callers, acquires, pipeline_vars>>

NextTracer ==
    \/ LogExecution
    \/ GetExecutionSummary

SpecTracer == Init /\ [][NextTracer]_vars

\* the entries of the trace logged for agent a
EntriesOf(a) == {i \in DOMAIN execution_trace : execution_trace[i].agent = a}

RECURSIVE TotalCalls(_, _)
\* the sum of total_calls over the agents of as
TotalCalls(metrics, as) ==
    IF as = {} THEN 0
    ELSE LET a == CHOOSE x \in as : TRUE
         IN metrics[a].total_calls + TotalCalls(metrics, as \ {a})

\* C15: after any sequence of _log_execution calls, every agent's
\* total_calls is the number of its entries in the trace and its
\* successful_calls the number of those with success true; so
\* successful_calls <= total_calls, and the total_calls of all the agents
\* sum to the length of the trace.
C15_CountersMatchTrace ==
    /\ DOMAIN performance_metrics =
          {execution_trace[i].agent : i \in DOMAIN execution_trace}
    /\ \A a \in DOMAIN performance_metrics :
          /\ performance_metrics[a].total_calls = Cardinality(EntriesOf(a))
          /\ performance_metrics[a].successful_calls =
                Cardinality({i \in EntriesOf(a) : execution_trace[i].success})
          /\ performance_metrics[a].successful_calls
                <= performance_metrics[a].total_calls
    /\ TotalCalls(performance_metrics, DOMAIN performance_metrics)
          = Len(execution_trace)

\* the calls of two agents alternated, some of them failures
C15_Witness ==
    /\ Len(execution_trace) = 3
    /\ execution_trace[1].agent = "SearchAgent"
    /\ execution_trace[2].agent = "ReflectionAgent"
    /\ execution_trace[3].agent = "SearchAgent"
    /\ ~execution_trace[1].success
    /\ execution_trace[3].success
    /\ performance_metrics["SearchAgent"].total_calls = 2
    /\ performance_metrics["SearchAgent"].successful_calls = 1

\* C16: the success_rate of get_execution_summary is S/K after K entries of
\* which S have success true, for every K >= 1 and 0 <= S <= K, and 0.0
\* when K = 0 (stated while the trace is the one the summary was made of).
C16_SuccessRateIsSOverK ==
    LET K == Len(execution_trace)
        S == Cardinality({i \in 1..K : execution_trace[i].success})
    IN (summary # <<>> /\ summary[1].total_operations = K)
          => summary[1].success_rate = IF K = 0 THEN <<0, 1>> ELSE <<S, K>>

\* a summary of three entries, two of them successes
C16_Witness ==
    /\ summary # <<>>
    /\ summary[1].total_operations = 3
    /\ Len(execution_trace) = 3
    /\ summary[1].success_rate = <<2, 3>>

-----------------------------------------------------------------------------
(* _assess_source_quality, _determine_source_type, _extract_sources.       *)
(* A url is modelled by the set of the domain markers it contains and a    *)
(* title by the set of the quality words it contains (lower-cased), so     *)
(* that `'.edu' in url` is `".edu" \in url`. Scores are counted in         *)
(* hundredths (0.5 is 50); the rounding of the binary floating point       *)
(* additions is not modelled.                                              *)

UrlMarkers == {".edu", ".ac.", ".gov", ".org", ".com"}

StudyWords == {"study", "research", "analysis", "report", "journal"}
NewsWords == {"news", "article", "blog"}
OpinionWords == {"opinion", "editorial", "commentary"}

\* the if/elif chain on url
DomainAdjustment(u) ==
    IF ".edu" \in u \/ ".ac." \in u THEN 30
    ELSE IF ".gov" \in u THEN 25
    ELSE IF ".org" \in u THEN 15
    ELSE IF ".com" \in u THEN 5
    ELSE 0 - 10

\* the if/elif chain on title_lower
TitleAdjustmentMutCumulative(t) ==
    (IF t \cap StudyWords # {} THEN 20 ELSE 0)
    + (IF t \cap NewsWords # {} THEN 10 ELSE 0)
    - (IF t \cap OpinionWords # {} THEN 10 ELSE 0)
TitleAdjustment(t) ==
    IF t \cap StudyWords # {} THEN 20
    ELSE IF t \cap NewsWords # {} THEN 10
    ELSE IF t \cap OpinionWords # {} THEN 0 - 10
    ELSE 0

\* max(0.0, min(1.0, quality_score))
Clamp(q) == IF q > 100 THEN 100 ELSE IF q < 0 THEN 0 ELSE q

\* _assess_source_quality
AssessSourceQuality(u, t) ==
    Clamp(50 + DomainAdjustment(u) + TitleAdjustment(t))

\* _determine_source_type
DetermineSourceType(u) ==
    IF ".edu" \in u \/ ".ac." \in u THEN "academic"
    ELSE IF ".gov" \in u THEN "government"
    ELSE IF ".org" \in u THEN "organization"
    ELSE IF ".com" \in u THEN "commercial"
    ELSE "web"

\* Citation(id=..., title=title, url=url, source_type=source_type,
\*          reliability_score=0.8, quality_score=quality_score)
ExtractedCitationMutNoReliability(id, t, u) ==
    [id |-> id, title |-> t, url |-> u,
     source_type |-> DetermineSourceType(u),
     reliability_score |-> AssessSourceQuality(u, t) + 80,
     quality_score |-> AssessSourceQuality(u, t)]
ExtractedCitation(id, t, u) ==
    [id |-> id, title |-> t, url |-> u,
     source_type |-> DetermineSourceType(u),
     reliability_score |-> 80,
     quality_score |-> AssessSourceQuality(u, t)]

(* A line of the content is modelled by what _extract_sources tests of it: *)
(*   http      'http' in line                                              *)
(*   fmt       the branch an http line takes: "source" ('*Source:' in      *)
(*             line), "bracket" ('[' in line and ']' in line), "other"     *)
(*   bold      line.startswith('**') and line.endswith('**')               *)
(*   numbered  '**' in line and a digit in line                            *)
(*   starred   line.startswith('*')                                        *)
(*   blank     not line.strip()                                            *)
(*   words     the quality words in the line                               *)
(*   bracket   the quality words between '[' and ']'                       *)
(*   url       the domain markers of the url in the line                   *)

Line(http, fmt, bold, numbered, starred, blank, words, bracket, u) ==
    [http |-> http, fmt |-> fmt, bold |-> bold, numbered |-> numbered,
     starred |-> starred, blank |-> blank, words |-> words,
     bracket |-> bracket, url |-> u]

\* the lines the contents of the model are made of:
\*   "**Research study**", "1. **Opinion piece**", "a news article", "",
\*   "*Source: https://x.edu/p*", "[blog post] text - http://y.com/p",
\*   "http://z.io/page"
Lines ==
    {Line(FALSE, "none", TRUE, FALSE, TRUE, FALSE, {"research", "study"}, {}, {}),
     Line(FALSE, "none", FALSE, TRUE, FALSE, FALSE, {"opinion"}, {}, {}),
     Line(FALSE, "none", FALSE, FALSE, FALSE, FALSE, {"news", "article"}, {}, {}),
     Line(FALSE, "none", FALSE, FALSE, FALSE, TRUE, {}, {}, {}),
     Line(TRUE, "source", FALSE, FALSE, TRUE, FALSE, {}, {}, {".edu"}),
     Line(TRUE, "bracket", FALSE, FALSE, FALSE, FALSE, {"blog"}, {"blog"}, {".com"}),
     Line(TRUE, "other", FALSE, FALSE, FALSE, FALSE, {}, {}, {})}

\* the first of the lines looked back at that matches, 0 when there is none:
\* `for j in range(...): if ...: title = ...; break`
FirstMatch(matching) ==
    IF matching = {} THEN 0
    ELSE CHOOSE j \in matching : \A k \in matching : j <= k

\* range(max(0, i-back), i), lines being counted from 1
LookBack(i, back) == (IF i - back > 1 THEN i - back ELSE 1)..(i - 1)

\* the title _extract_sources gives the source of line i (counted from 1);
\* the defaults "Unknown Title" and "Search Result" hold no quality word
TitleOf(ls, i) ==
    CASE ls[i].fmt = "source" ->
            LET j == FirstMatch({k \in LookBack(i, 3) :
                                    ls[k].bold \/ ls[k].numbered})
            IN IF j = 0 THEN {} ELSE ls[j].words
      [] ls[i].fmt = "bracket" -> ls[i].bracket
      [] OTHER ->
            LET j == FirstMatch({k \in LookBack(i, 2) :
                                    ~ls[k].blank /\ ~ls[k].starred})
            IN IF j = 0 THEN {} ELSE ls[j].words

\* id=len(sources)+1
NextIdMutZeroBased(found) == Len(found)
NextId(found) == Len(found) + 1

RECURSIVE ExtractFrom(_, _, _)
\* the loop `for i, line in enumerate(lines)` from line i on, `found` being
\* the sources appended so far
ExtractFrom(ls, i, found) ==
    IF i > Len(ls) THEN found
    ELSE IF ls[i].http
         THEN ExtractFrom(ls, i + 1,
                  Append(found,
                         ExtractedCitation(NextId(found), TitleOf(ls, i),
                                           ls[i].url)))
         ELSE ExtractFrom(ls, i + 1, found)

\* _extract_sources
ExtractSources(ls) == ExtractFrom(ls, 1, <<>>)

-----------------------------------------------------------------------------
(* Specification SpecExtract: _extract_sources on every content of at most *)
(* MaxLines of the Lines.                                                  *)

\* lines of a content
MaxLines == 3

Contents == UNION {[1..n -> Lines] : n \in 0..MaxLines}

InitExtract ==
    /\ time_since_last_call = rate_limit_delay
    /\ acquires = NoEvents
    /\ execution_trace = <<>>
    /\ performance_metrics = EmptyMetrics
    /\ max_retries = default_max_retries
    /\ base_delay = default_base_delay
    /\ rt = NoRetry
    /\ callers = NoCallers
    /\ NoPipeline
    /\ content \in Contents
    /\ sources = <<>>
    /\ url = {}
    /\ title = {}
    /\ quality_score = <<>>
    /\ conflicts = <<>>
    /\ categories = <<>>
    /\ summary = <<>>
    /\ resolution = <<>>
    /\ elapsed = 0

\* sources = self._extract_sources(result.final_output)
ExtractSourcesCall ==
    /\ sources' = ExtractSources(content)
    /\ UNCHANGED <<content, url, title, quality_score, conflicts, categories,
                   summary, resolution, elapsed, orchestrator_vars, retry_vars,
                   callers, acquires, pipeline_vars>>

SpecExtract == InitExtract /\ [][ExtractSourcesCall]_vars

\* the lines of the content that hold a url, in order
HttpLines == {i \in DOMAIN content : content[i].http}

\* C17: the n sources of one _extract_sources call carry the ids 1, 2, ...,
\* n in the order of the returned list, which is the order of the lines
\* they were extracted from.
C17_IdsArePositions ==
    sources # <<>>
        => /\ Len(sources) = Cardinality(HttpLines)
           /\ \A k \in DOMAIN sources :
                /\ sources[k].id = k
                /\ \E i \in HttpLines :
                      /\ Cardinality({h \in HttpLines : h <= i}) = k
                      /\ sources[k].url = content[i].url

\* three sources extracted from three lines of different formats
C17_Witness ==
    /\ Len(sources) = 3
    /\ sources[1].source_type = "web"
    /\ sources[2].source_type = "academic"
    /\ sources[3].source_type = "commercial"
    /\ sources[3].id = 3

\* C19: every source _extract_sources produces has its quality_score in
\* [0, 1] and its reliability_score in [0, 1], the latter being 0.8.
C19_ScoresInUnitInterval ==
    \A k \in DOMAIN sources :
        /\ sources[k].quality_score \in 0..100
        /\ sources[k].reliability_score \in 0..100
        /\ sources[k].reliability_score = 80

\* a source with the highest score and one with the lowest
C19_Witness ==
    /\ Len(sources) = 2
    /\ sources[1].quality_score = 100
    /\ sources[2].quality_score = 40

-----------------------------------------------------------------------------
(* Specification SpecQuality: _assess_source_quality on every url and on   *)
(* every title of at most MaxWords quality words.                          *)

\* quality words in a title
MaxWords == 2

Titles ==
    {t \in SUBSET (StudyWords \cup NewsWords \cup OpinionWords) :
        Cardinality(t) <= MaxWords}

InitQuality ==
    /\ time_since_last_call = rate_limit_delay
    /\ acquires = NoEvents
    /\ execution_trace = <<>>
    /\ performance_metrics = EmptyMetrics
    /\ max_retries = default_max_retries
    /\ base_delay = default_base_delay
    /\ rt = NoRetry
    /\ callers = NoCallers
    /\ NoPipeline
    /\ content = <<>>
    /\ sources = <<>>
    /\ url \in SUBSET UrlMarkers
    /\ title \in Titles
    /\ quality_score = <<>>
    /\ conflicts = <<>>
    /\ categories = <<>>
    /\ summary = <<>>
    /\ resolution = <<>>
    /\ elapsed = 0

\* quality_score = self._assess_source_quality(url, title)
AssessSourceQualityCall ==
    /\ quality_score' = <<AssessSourceQuality(url, title)>>
    /\ UNCHANGED <<content, sources, url, title, conflicts, categories,
                   summary, resolution, elapsed, orchestrator_vars, retry_vars,
                   callers, acquires, pipeline_vars>>

SpecQuality == InitQuality /\ [][AssessSourceQualityCall]_vars

MaxConflicts == 3

CategoryNames == {"temporal", "methodological", "perspectival", "data_quality"}

TemporalWords == {"recent", "latest", "new", "old", "dated", "current"}
MethodologicalWords == {"method", "approach", "study", "research", "analysis"}
PerspectivalWords == {"perspective", "view", "opinion", "belief", "stance"}
DataQualityWords == {"quality", "reliable", "accurate", "valid", "credible"}

\* the keywords the conflict lines under study are made of, one per group
ConflictWords == {"latest", "study", "view", "credible"}

ConflictLines == SUBSET ConflictWords

CategoryOfMutDefaultDataQuality(conflict) ==
    IF conflict \cap TemporalWords # {} THEN "temporal"
    ELSE IF conflict \cap MethodologicalWords # {} THEN "methodological"
    ELSE IF conflict \cap PerspectivalWords # {} THEN "perspectival"
    ELSE "data_quality"

\* the if / elif chain of the loop body
CategoryOf(conflict) ==
    IF conflict \cap TemporalWords # {} THEN "temporal"
    ELSE IF conflict \cap MethodologicalWords # {} THEN "methodological"
    ELSE IF conflict \cap PerspectivalWords # {} THEN "perspectival"
    ELSE IF conflict \cap DataQualityWords # {} THEN "data_quality"
    ELSE "perspectival"

EmptyCategories == [k \in CategoryNames |-> <<>>]

\* for conflict in conflicts: categories[...].append(conflict)
RECURSIVE CategorizeFrom(_, _, _)
CategorizeFrom(cs, i, cats) ==
    IF i > Len(cs) THEN cats
    ELSE LET k == CategoryOf(cs[i])
         IN CategorizeFrom(cs, i + 1,
                           [cats EXCEPT ![k] = Append(cats[k], cs[i])])

\* return {k: v for k, v in categories.items() if v}
NonEmpty(cats) ==
    [k \in {c \in DOMAIN cats : cats[c] # <<>>} |-> cats[k]]

CategorizeConflicts(cs) == NonEmpty(CategorizeFrom(cs, 1, EmptyCategories))

ConflictLists == UNION {[1..n -> ConflictLines] : n \in 0..MaxConflicts}

InitCategorize ==
    /\ time_since_last_call = rate_limit_delay
    /\ acquires = NoEvents
    /\ execution_trace = <<>>
    /\ performance_metrics = EmptyMetrics
    /\ max_retries = default_max_retries
    /\ base_delay = default_base_delay
    /\ rt = NoRetry
    /\ callers = NoCallers
    /\ NoPipeline
    /\ content = <<>>
    /\ sources = <<>>
    /\ url = {}
    /\ title = {}
    /\ quality_score = <<>>
    /\ conflicts \in ConflictLists
    /\ categories = <<>>
    /\ summary = <<>>
    /\ resolution = <<>>
    /\ elapsed = 0

\* conflict_types = self._categorize_conflicts(conflicts)
CategorizeConflictsCall ==
    /\ categories' = <<CategorizeConflicts(conflicts)>>
    /\ UNCHANGED <<content, sources, url, title, quality_score, conflicts,
                   summary, resolution, elapsed, orchestrator_vars, retry_vars,
                   callers, acquires, pipeline_vars>>

SpecCategorize == InitCategorize /\ [][CategorizeConflictsCall]_vars

\* the number of times a line occurs in a list
Occurrences(line, list) == Cardinality({i \in DOMAIN list : list[i] = line})

\* C20: categorizing puts every input line in exactly one bucket, the first
\* of temporal, methodological, perspectival, data-quality whose keyword
\* group the line matches, and perspectival when it matches none; no
\* returned bucket is empty, and the returned buckets together hold the
\* input lines, each as many times as the input does.
C20_CategorizePartitionsInput ==
    categories # <<>>
        => LET buckets == categories[1]
               Bucket(k) == IF k \in DOMAIN buckets THEN buckets[k] ELSE <<>>
               Matching(line) ==
                   CASE line \cap TemporalWords # {} -> "temporal"
                     [] line \cap TemporalWords = {}
                           /\ line \cap MethodologicalWords # {}
                        -> "methodological"
                     [] line \cap (TemporalWords \cup MethodologicalWords) = {}
                           /\ line \cap PerspectivalWords # {}
                        -> "perspectival"
                     [] line \cap (TemporalWords \cup MethodologicalWords
                                     \cup PerspectivalWords) = {}
                           /\ line \cap DataQualityWords # {}
                        -> "data_quality"
                     [] OTHER -> "perspectival"
           IN /\ DOMAIN buckets \subseteq CategoryNames
              /\ \A k \in DOMAIN buckets :
                    /\ buckets[k] # <<>>
                    /\ \A j \in DOMAIN buckets[k] :
                          Matching(buckets[k][j]) = k
              /\ \A line \in ConflictLines :
                    Occurrences(line, conflicts)
                        = Occurrences(line, Bucket("temporal"))
                          + Occurrences(line, Bucket("methodological"))
                          + Occurrences(line, Bucket("perspectival"))
                          + Occurrences(line, Bucket("data_quality"))

\* a line of two groups went to the first, a line of no group and a line
\* of the last group to their buckets, and the empty bucket was dropped
C20_Witness ==
    /\ conflicts = <<{"study", "latest"}, {}, {"credible"}>>
    /\ categories # <<>>
    /\ DOMAIN categories[1] = {"temporal", "perspectival", "data_quality"}
    /\ categories[1]["temporal"] = <<{"study", "latest"}>>
    /\ categories[1]["perspectival"] = <<{}>>
    /\ categories[1]["data_quality"] = <<{"credible"}>>


(***************************************************************************)
(* ReflectionAgent._resolve_conflicts, called on its own.  Confidences are *)
(* in tenths; a mean is the pair <<sum, count>> of the division the code   *)
(* makes, and two means are equal when they are the same fraction.         *)
(***************************************************************************)

\* the order of the keys of the categories dict, which is the order
\* `for conflict_type, conflicts_list in conflict_types.items()` follows
CategoryOrder == <<"temporal", "methodological", "perspectival", "data_quality">>

StrategyOf(type) ==
    CASE type = "temporal" -> "prioritize_recent_sources"
      [] type = "methodological" -> "compare_methodologies"
      [] type = "perspectival" -> "acknowledge_multiple_perspectives"
      [] type = "data_quality" -> "assess_source_reliability"

\* the "confidence" of the _resolve_*_conflicts functions
ConfidenceOf(type) ==
    CASE type = "temporal" -> 8
      [] type = "methodological" -> 7
      [] type = "perspectival" -> 9
      [] type = "data_quality" -> 8

\* _resolve_temporal_conflicts, _resolve_methodological_conflicts,
\* _resolve_perspectival_conflicts, _resolve_data_quality_conflicts
ResolveCategory(type) ==
    [type |-> type, strategy |-> StrategyOf(type),
     confidence |-> ConfidenceOf(type)]

\* resolutions = []; for conflict_type, ... in conflict_types.items(): ...
RECURSIVE ResolutionsFrom(_, _)
ResolutionsFrom(conflict_types, i) ==
    IF i > Len(CategoryOrder) THEN <<>>
    ELSE (IF CategoryOrder[i] \in DOMAIN conflict_types
          THEN <<ResolveCategory(CategoryOrder[i])>>
          ELSE <<>>) \o ResolutionsFrom(conflict_types, i + 1)

\* sum(r.get("confidence", 0) for r in resolutions)
RECURSIVE SumConfidence(_)
SumConfidence(resolutions) ==
    IF resolutions = <<>> THEN 0
    ELSE resolutions[1].confidence + SumConfidence(Tail(resolutions))

SynthesizeResolutionsMutDivideByFour(resolutions) ==
    IF resolutions = <<>>
    THEN [resolution |-> <<"No conflicts to resolve">>,
          confidence |-> <<10, 1>>]
    ELSE LET strategies == {resolutions[i].strategy : i \in DOMAIN resolutions}
         IN [resolution |->
                 <<"Multiple conflict resolution strategies applied",
                   strategies>>,
             confidence |-> <<SumConfidence(resolutions), 4>>,
             strategies_applied |-> Cardinality(strategies)]

\* _synthesize_resolutions
SynthesizeResolutions(resolutions) ==
    IF resolutions = <<>>
    THEN [resolution |-> <<"No conflicts to resolve">>,
          confidence |-> <<10, 1>>]
    ELSE LET strategies == {resolutions[i].strategy : i \in DOMAIN resolutions}
         IN [resolution |->
                 <<"Multiple conflict resolution strategies applied",
                   strategies>>,
             confidence |-> <<SumConfidence(resolutions), Len(resolutions)>>,
             strategies_applied |-> Cardinality(strategies)]

\* _resolve_conflicts, with the resolutions it made
ResolveConflicts(cs) ==
    IF cs = <<>>
    THEN [resolutions |-> <<>>,
          final |-> [resolution |-> <<"No conflicts detected">>,
                     confidence |-> <<10, 1>>]]
    ELSE LET resolutions == ResolutionsFrom(CategorizeConflicts(cs), 1)
         IN [resolutions |-> resolutions,
             final |-> SynthesizeResolutions(resolutions)]

\* self._resolve_conflicts(conflicts, search_results)
ResolveConflictsCall ==
    /\ resolution' = <<ResolveConflicts(conflicts)>>
    /\ UNCHANGED <<content, sources, url, title, quality_score, conflicts,
                   categories, summary, elapsed, orchestrator_vars, retry_vars,
                   callers, acquires, pipeline_vars>>

SpecResolve == InitCategorize /\ [][ResolveConflictsCall]_vars

\* the categories the lines of the conflicts under study fall in
CategoriesPresent == {CategoryOf(conflicts[i]) : i \in DOMAIN conflicts}

\* C21: resolving conflicts makes one resolution per non-empty category,
\* with confidence 0.8 for temporal, 0.7 for methodological, 0.9 for
\* perspectival and 0.8 for data-quality, and the confidence of the result
\* is the arithmetic mean of the confidences of those resolutions; with no
\* conflicts the result is the no-conflicts result with confidence 1.0.
C21_ResolutionConfidenceIsMean ==
    resolution # <<>>
        => LET made == resolution[1].resolutions
               final == resolution[1].final
               Fixed(type) ==
                   CASE type = "temporal" -> 8
                     [] type = "methodological" -> 7
                     [] type = "perspectival" -> 9
                     [] type = "data_quality" -> 8
               sum == (IF "temporal" \in CategoriesPresent THEN 8 ELSE 0)
                      + (IF "methodological" \in CategoriesPresent
                         THEN 7 ELSE 0)
                      + (IF "perspectival" \in CategoriesPresent
                         THEN 9 ELSE 0)
                      + (IF "data_quality" \in CategoriesPresent
                         THEN 8 ELSE 0)
           IN IF conflicts = <<>>
              THEN final = [resolution |-> <<"No conflicts detected">>,
                            confidence |-> <<10, 1>>]
              ELSE /\ \A k \in CategoriesPresent :
                         Cardinality({i \in DOMAIN made : made[i].type = k})
                             = 1
                   /\ \A i \in DOMAIN made :
                         /\ made[i].type \in CategoriesPresent
                         /\ made[i].confidence = Fixed(made[i].type)
                   /\ final.confidence[1] * Cardinality(CategoriesPresent)
                         = sum * final.confidence[2]
                   /\ final.confidence[2] > 0

\* conflicts of the temporal, methodological and perspectival categories
\* were resolved with mean confidence (0.8 + 0.7 + 0.9) / 3 = 0.8
C21_Witness ==
    /\ conflicts = <<{"latest"}, {"study"}, {}>>
    /\ resolution # <<>>
    /\ Len(resolution[1].resolutions) = 3
    /\ resolution[1].final.confidence = <<24, 3>>


(***************************************************************************)
(* Specification SpecSequential: MaxCallers _rate_limit calls of one       *)
(* orchestrator made one after the other, each awaited before the next is  *)
(* made, with any time passing between two calls.                          *)
(***************************************************************************)

\* `await self._rate_limit()` by a caller whose predecessors have returned
RateLimitCallInTurn ==
    /\ RateLimitCall
    /\ \A c \in DOMAIN callers :
          (callers[c].st = "created" /\ callers'[c].st # "created")
              => \A b \in 1..(c - 1) : callers[b].st = "returned"

NextSequential ==
    \/ RateLimitCallInTurn
    \/ RateLimitWake
    \/ RateLimitTick

SpecSequential == InitRateLimit /\ [][NextSequential]_vars

\* C22: N _rate_limit calls made one after the other, for every N >= 1,
\* take at least (N - 1) * rate_limit_delay from the beginning of the first
\* to the return of the N-th.
C22_SequentialCallsTakeTime ==
    acquires.n >= 1 => elapsed >= (acquires.n - 1) * rate_limit_delay

\* three calls made one after the other have returned, in exactly twice
\* the delay
C22_Witness ==
    /\ acquires.n = 3
    /\ \A c \in DOMAIN callers : callers[c].st = "returned"
    /\ elapsed = 2 * rate_limit_delay


-----------------------------------------------------------------------------
(* Claims on conduct_research and _execute_research_plan (Spec) *)

\* conduct_research raised what its stream_callback raised
CallbackFailureRaised ==
    /\ pc = "raised"
    /\ raised = CallbackError

\* C23: a failure raised by the progress callback, at any stage or
\* sub-task boundary, does not abort the pipeline: conduct_research never
\* raises it, and goes on to return the report.
C23_CallbackFailureDoesNotAbort == ~CallbackFailureRaised


\* C24: in the Reflection batch, the reflection task at position p of the
\* list of Reflection tasks, counted from 0 as the successful search
\* results are, is given the content of the successful search result at
\* position p mod n, n being the number of successful search results.
C24_ReflectionBoundByPosition ==
    pc = "reflection_batch"
        => LET n == Len(results.search_results) IN
           \A i \in DOMAIN tasks :
              tasks[i].content = results.search_results[((i - 1) % n) + 1].task


\* the handoff entries of the Reflection tasks in the trace
ReflectionHandoffs ==
    {execution_trace[i].num :
        i \in {j \in DOMAIN execution_trace :
                  execution_trace[j].action = "handoff_to_reflection"}}

\* the search tasks whose results are in results["search_results"]
SuccessfulSearches ==
    {results.search_results[k].task : k \in DOMAIN results.search_results}

\* C25: Reflection worker calls are made if and only if at least one Search
\* task succeeded: none is made without a successful search result, and
\* where the Reflection batch is over with a successful search result,
\* every Reflection task of the plan was handed to its worker; when the
\* batch is launched it holds every Reflection task of the plan, each bound
\* to the content of one of the successful search results.
C25_ReflectionNeedsSearchResult ==
    /\ ReflectionHandoffs # {} => SuccessfulSearches # {}
    /\ (/\ pc \in {"citations_launch", "citations_loop", "finish", "done"}
        /\ SuccessfulSearches # {})
          => ReflectionHandoffs = 1..Len(TasksOf(plan, "Reflection"))
    /\ pc = "reflection_batch"
          => /\ Len(tasks) = Len(TasksOf(plan, "Reflection"))
             /\ \A i \in DOMAIN tasks :
                   /\ tasks[i].kind = "Reflection"
                   /\ tasks[i].content \in SuccessfulSearches

\* two Reflection tasks were launched on the one successful search result
\* of two Search tasks
C25_Witness ==
    /\ pc = "reflection_batch"
    /\ Len(tasks) = 2
    /\ Len(TasksOf(plan, "Search")) = 2
    /\ SuccessfulSearches = {2}
    /\ \A i \in DOMAIN tasks : tasks[i].content = 2


\* the tasks of the batch that asyncio.gather waits for have all returned
\* or raised
BatchFinished ==
    \A i \in DOMAIN tasks : tasks[i].st \in {"returned", "raised"}

\* coroutines of the kind are created in this step
BatchCreated(kind) ==
    /\ \A i \in DOMAIN tasks : tasks[i].kind # kind
    /\ \E i \in DOMAIN tasks' : tasks'[i].kind = kind

\* C26: within Executing, no Reflection worker call starts before every
\* Search task has completed or failed, no Citations worker call starts
\* before every Reflection task has completed or failed, and Synthesizing
\* starts only after all Citations tasks have finished: the Reflection
\* batch is created only once the Search batch is over, the citation loop
\* is entered only once the Reflection batch is over, and Synthesizing is
\* entered only when no citation task is left.
C26_BatchesInOrder ==
    [][/\ (pc \in {"search_batch", "reflection_batch"}
              /\ pc' \notin {pc, "raised"})
          => BatchFinished
       /\ (pc' = "reflection_launch" /\ pc # pc')
          => \/ pc = "search_batch"
             \/ pc = "search_launch" /\ TasksOf(plan, "Search") = <<>>
       /\ BatchCreated("Reflection")
          => pc = "reflection_launch" /\ tasks = <<>>
       /\ (pc' = "citations_launch" /\ pc # pc')
          => pc \in {"reflection_batch", "reflection_launch"}
       /\ (cit = <<>> /\ cit' # <<>>)
          => pc = "citations_launch" /\ tasks = <<>>
       /\ (pc' = "finish" /\ pc # pc')
          => \/ pc = "citations_launch" /\ cit = <<>>
             \/ /\ pc = "citations_loop"
                /\ cit[1].num = Len(TasksOf(plan, "Citations"))
                /\ cit[1].st = "retry"
       /\ (stages' # stages /\ stages'[Len(stages')] \in {"Synthesizing", "Done"})
          => pc = "finish" /\ cit = <<>> /\ tasks = <<>>
      ]_vars

\* Synthesizing was entered after two Search tasks, two Reflection tasks
\* and the Citations task were over
C26_Witness ==
    /\ pc = "done"
    /\ Len(TasksOf(plan, "Search")) = 2
    /\ Len(results.search_results) = 2
    /\ Len(results.reflection_results) = 2
    /\ results.citations # <<>>


RECURSIVE SourcesBefore(_, _)
\* the number of sources of the search results before the k-th
SourcesBefore(search_results, k) ==
    IF k <= 1 THEN 0
    ELSE SourcesBefore(search_results, k - 1)
             + Len(search_results[k - 1].sources)

\* the entries of the trace with the action name, in order
EntriesNamed(action) ==
    SelectSeq(execution_trace, LAMBDA e : e.action = action)

\* the Citations tasks whose worker call has returned
CitationsDone ==
    Len(SelectSeq(EntriesNamed("handoff_back_to_lead"),
                  LAMBDA e : e.agent = "CitationsAgent"))

C28_SourceIdsDistinct ==
    LET all_sources == AllSources(results) IN
    \A i, j \in DOMAIN all_sources :
        i # j => all_sources[i].id # all_sources[j].id


(***************************************************************************)
(* Specification SpecWindow: _log_execution calls of one agent on a new    *)
(* orchestrator, enough of them for the trace to outgrow the 10 entries    *)
(* get_execution_summary reports, get_execution_summary being called at    *)
(* any point.                                                              *)
(***************************************************************************)

\* _log_execution calls, one more than the summary's window
MaxWindowEntries == 11

LogExecutionWindow ==
    LogExecutionOf(MaxWindowEntries, {"SearchAgent"}, {<<>>})

NextWindow ==
    \/ LogExecutionWindow
    \/ GetExecutionSummary

SpecWindow == Init /\ [][NextWindow]_vars

\* C29: the trace is append-only: every _log_execution call appends exactly
\* one entry at the end and leaves the earlier entries as they are and
\* where they are, so that the length of the trace never decreases; and
\* get_execution_summary, which reports the last 10 entries only, leaves
\* the trace and the counters as they are.
C29_TraceIsAppendOnly ==
    [][/\ Len(execution_trace') >= Len(execution_trace)
       /\ \A i \in DOMAIN execution_trace :
             execution_trace'[i] = execution_trace[i]
       /\ execution_trace' # execution_trace
             => Len(execution_trace') = Len(execution_trace) + 1
       /\ summary' # summary
             => /\ execution_trace' = execution_trace
                /\ performance_metrics' = performance_metrics
                /\ Len(summary'[1].execution_trace)
                      = Min(Len(execution_trace), 10)
      ]_vars

\* a summary of the last 10 of 11 entries was made and the trace still
\* holds the 11
C29_Witness ==
    /\ Len(execution_trace) = 11
    /\ summary # <<>>
    /\ summary[1].total_operations = 11
    /\ Len(summary[1].execution_trace) = 10


\* the latest entry of the trace logged for agent a
LatestOf(a) == CHOOSE i \in EntriesOf(a) : \A j \in EntriesOf(a) : j <= i

\* C30: after every _log_execution call that is given a duration d, for any
\* d >= 0, the agent's average_duration is its total_duration divided by
\* its total_calls, which counts all the agent's entries, with or without
\* a duration.
C30_AverageIsTotalOverCalls ==
    \A a \in DOMAIN performance_metrics :
        execution_trace[LatestOf(a)].duration # <<>>
            => LET m == performance_metrics[a]
               IN /\ m.total_calls = Cardinality(EntriesOf(a))
                  /\ m.average_duration[1] * m.total_calls
                        = m.total_duration * m.average_duration[2]


-----------------------------------------------------------------------------
(* Further claims on _retry_with_backoff (SpecRetry) *)

\* C31: _retry_with_backoff never calls _rate_limit and never reads or
\* changes the cursor last_api_call: no _rate_limit call is made or
\* returns, the time since the cursor only grows with the clock, and a
\* retried attempt starts when its backoff delay base_delay * 2^attempt is
\* over, whatever the time since the cursor.
C31_RetryLeavesCursorAlone ==
    [][/\ acquires' = acquires
       /\ callers' = callers
       /\ time_since_last_call' >= time_since_last_call
       /\ time_since_last_call' # time_since_last_call
             => rt.st = "backoff" /\ rt'.sleep_left = rt.sleep_left - 1
       /\ (rt.st = "calling" /\ rt'.st = "backoff")
             => rt'.sleep_left = base_delay * (2 ^ rt.attempt)
       /\ (rt.st = "backoff" /\ rt'.st = "calling")
             => rt.sleep_left = 0
      ]_vars

\* a second attempt began one second after the cursor was set, within the
\* delay _rate_limit would have enforced
C31_Witness ==
    /\ rt.st = "calling"
    /\ rt.calls = 2
    /\ time_since_last_call = 1


-----------------------------------------------------------------------------
(* Further claims on conduct_research and _execute_research_plan (Spec) *)

\* C32: the result of a Search task is immutable once the task has
\* returned: no later step of the run changes a field of a search result
\* in results["search_results"], or a field of a source in its sources.
C32_SearchResultsImmutable ==
    [][\A k \in DOMAIN results.search_results :
          /\ k \in DOMAIN results'.search_results
          /\ results'.search_results[k] = results.search_results[k]]_vars


-----------------------------------------------------------------------------
(* Specification SpecPlanning: _parse_requirements on any question, and    *)
(* _parse_plan on the requirements it made or on requirements of any of    *)
(* the four depth tiers.  pc is "gathering" before _parse_requirements,    *)
(* "planning" before _parse_plan and "search_launch" after it.             *)

\* the marker phrases _parse_requirements looks for in a question
DepthMarkers ==
    {"compare", "analyze", "evaluate", "comprehensive", "detailed",
     "what is", "define", "explain"}

DepthTiers == {"basic", "standard", "deep", "expert"}

InitPlanning ==
    /\ time_since_last_call = rate_limit_delay
    /\ acquires = NoEvents
    /\ execution_trace = <<>>
    /\ performance_metrics = EmptyMetrics
    /\ max_retries = default_max_retries
    /\ base_delay = default_base_delay
    /\ rt = NoRetry
    /\ callers = NoCallers
    /\ NoFunctionCall
    /\ user_input \in SUBSET DepthMarkers
    /\ \/ pc = "gathering" /\ requirements = [research_depth |-> "None"]
       \/ /\ pc = "planning"
          /\ requirements \in [research_depth : DepthTiers]
    /\ research_calls = 1
    /\ raised = NoException
    /\ plan = <<>>
    /\ tasks = <<>>
    /\ cit = <<>>
    /\ join_index = 0
    /\ results = [search_results |-> <<>>, reflection_results |-> <<>>,
                  citations |-> <<>>]
    /\ final_report = <<>>
    /\ stages = <<>>
    /\ failures = 0
    /\ completion_calls = NoEvents

\* requirements = self._parse_requirements(user_input, result.final_output)
ParseRequirementsCall ==
    /\ pc = "gathering"
    /\ requirements' = [research_depth |-> ParseResearchDepth(user_input)]
    /\ pc' = "planning"
    /\ UNCHANGED <<function_vars, orchestrator_vars, retry_vars, callers,
                   acquires, research_calls, user_input, plan, tasks, cit,
                   join_index, results, final_report, stages, failures,
                   completion_calls, raised>>

\* plan = self._parse_plan(requirements, result.final_output)
ParsePlanCall ==
    /\ pc = "planning"
    /\ plan' = ParsePlan(requirements.research_depth)
    /\ pc' = "search_launch"
    /\ UNCHANGED <<function_vars, orchestrator_vars, retry_vars, callers,
                   acquires, research_calls, user_input, requirements, tasks,
                   cit, join_index, results, final_report, stages, failures,
                   completion_calls, raised>>

NextPlanning ==
    \/ ParseRequirementsCall
    \/ ParsePlanCall

SpecPlanning == InitPlanning /\ [][NextPlanning]_vars

\* C33: for every depth tier (basic, standard, deep, expert) the plan
\* _parse_plan builds has at least one task and every task's worker kind is
\* Search, Reflection or Citations, so that the partition by worker kind
\* puts every task of the plan in exactly one of the three groups.
C33_PlanTasksHaveKnownKinds ==
    pc = "search_launch"
        => LET kinds == {"Search", "Reflection", "Citations"} IN
           /\ plan # <<>>
           /\ \A i \in DOMAIN plan : plan[i].agent \in kinds
           /\ Len(TasksOf(plan, "Search")) + Len(TasksOf(plan, "Reflection"))
                 + Len(TasksOf(plan, "Citations")) = Len(plan)
           /\ \A i \in DOMAIN plan :
                 Cardinality({k \in kinds :
                     \E j \in DOMAIN TasksOf(plan, k) :
                         TasksOf(plan, k)[j] = plan[i]}) = 1

\* the plan of the expert tier was built: five tasks, one of them a
\* Citations task
C33_Witness ==
    /\ pc = "search_launch"
    /\ requirements.research_depth = "expert"
    /\ Len(plan) = 5
    /\ Len(TasksOf(plan, "Citations")) = 1


\* C38: every requirement the Gathering stage makes has depth 'standard'
\* or 'deep', never 'basic' or 'expert', so that every plan made from such
\* a requirement holds at least one Search task, at least one Reflection
\* task and exactly one Citations task.
C38_GatheredDepthIsStandardOrDeep ==
    [][/\ pc = "gathering"
             => requirements'.research_depth \in {"standard", "deep"}
       /\ (/\ pc = "planning"
           /\ requirements.research_depth \in {"standard", "deep"})
             => /\ Len(TasksOf(plan', "Search")) >= 1
                /\ Len(TasksOf(plan', "Reflection")) >= 1
                /\ Len(TasksOf(plan', "Citations")) = 1
      ]_vars

\* a question with none of the marker phrases was given depth 'standard'
\* and a plan of one task of each kind
C38_Witness ==
    /\ pc = "search_launch"
    /\ user_input = {}
    /\ requirements.research_depth = "standard"
    /\ Len(plan) = 3


-----------------------------------------------------------------------------
(* Specification SpecLive: one conduct_research call in which what can     *)
(* happen does happen: the call is made, the event loop runs the           *)
(* coroutines that are ready, the clock moves while a sleep is awaited,    *)
(* and every capability call that is awaited returns or raises.            *)

SpecLive == Spec /\ WF_vars(Next)

\* conduct_research has returned the report or raised
Terminated == pc \in {"done", "raised"}

-----------------------------------------------------------------------------
(* Properties of the attributed-source branch of _extract_sources *)

\* the lines before line i, at most 3 back, that qualify as a title line
QualifyingBefore(i) ==
    {k \in LookBack(i, 3) : content[k].bold \/ content[k].numbered}

\* the position in the returned list of the source extracted from line i
SourceOfLine(i) == Cardinality({h \in HttpLines : h <= i})

\* C35: the title of a source extracted from a '*Source:' line is taken from
\* the qualifying line closest to that line among the up to 3 lines before
\* it, and is the default "Unknown Title" when none of them qualifies.
C35_TitleFromNearestQualifyingLine ==
    sources # <<>>
        => \A i \in HttpLines :
              content[i].fmt = "source"
                  => IF QualifyingBefore(i) = {}
                     THEN sources[SourceOfLine(i)].title = {}
                     ELSE \E j \in QualifyingBefore(i) :
                             /\ \A k \in QualifyingBefore(i) : k <= j
                             /\ sources[SourceOfLine(i)].title = content[j].words

\* two different title lines before a '*Source:' line, sources extracted
C35_Witness ==
    /\ Len(content) = 3
    /\ content[3].fmt = "source"
    /\ content[1].bold
    /\ content[2].numbered
    /\ Len(sources) = 1
    /\ sources[1].title = content[1].words


-----------------------------------------------------------------------------
(* Properties of the search join of _execute_research_plan *)

\* the k-th of the successful search tasks in the order of the plan
SuccessfulSearchAt(k) ==
    CHOOSE t \in SuccessfulSearches :
        Cardinality({u \in SuccessfulSearches : u <= t}) = k

\* the positions in the trace at which search task n handed back to the lead
SearchHandedBackAt(n) ==
    {j \in DOMAIN execution_trace :
        /\ execution_trace[j].agent = "SearchAgent"
        /\ execution_trace[j].action = "handoff_back_to_lead"
        /\ execution_trace[j].num = n}

\* C36: results["search_results"] holds the results of the successful Search
\* tasks in the order of the plan, in whatever order the concurrent tasks
\* completed; so the search result a Reflection task is bound to, and the
\* order of the sources collected from the search results, are fixed by
\* which Search tasks succeeded and not by the interleaving.
C36_SearchResultsInPlanOrder ==
    /\ \A k, l \in DOMAIN results.search_results :
          k < l => results.search_results[k].task < results.search_results[l].task
    /\ \A k \in DOMAIN results.search_results :
          results.search_results[k].task = SuccessfulSearchAt(k)
    /\ pc = "reflection_batch"
          => \A i \in DOMAIN tasks :
                tasks[i].content =
                    SuccessfulSearchAt((i % Cardinality(SuccessfulSearches)) + 1)

\* both Search tasks succeeded, the second one having completed before the
\* first, and the Reflection tasks were bound to their results
C36_Witness ==
    /\ pc = "reflection_batch"
    /\ Len(results.search_results) = 2
    /\ \E j \in SearchHandedBackAt(2) : \E k \in SearchHandedBackAt(1) : j < k


-----------------------------------------------------------------------------
(* Properties of the citation loop of _execute_research_plan *)

\* every Search task of the plan was joined, as completed or as failed
SearchesJoined ==
    /\ TasksOf(plan, "Search") # <<>>
    /\ Len(EntriesNamed("search_task_completed"))
          + Len(EntriesNamed("search_task_failed"))
       = Len(TasksOf(plan, "Search"))

\* the plan holds a Citations task and the successful Search tasks yielded
\* no source at all
NoSourceToCite ==
    /\ SearchesJoined
    /\ TasksOf(plan, "Citations") # <<>>
    /\ AllSources(results) = <<>>

\* the trace entries made for Citations tasks
CitationEntries ==
    SelectSeq(execution_trace,
              LAMBDA e : \/ e.action = "handoff_to_citations"
                         \/ e.agent = "CitationsAgent")

\* no Citations task was executed: no frame of the citation loop exists (so
\* none entered _rate_limit or called the worker), no trace entry was made
\* for one, and the citations list is empty
NoCitationExecuted ==
    /\ cit = <<>>
    /\ CitationEntries = <<>>
    /\ results.citations = <<>>

\* C37: when the successful Search tasks yield zero sources in total, no
\* Citations task is executed (no _rate_limit, no worker call, no trace
\* entry, an empty citations list), and the pipeline still completes:
\* conduct_research does not raise and returns its report.
C37_NoSourcesNoCitations ==
    NoSourceToCite
        => /\ NoCitationExecuted
           /\ pc # "raised"
           /\ pc = "done" => final_report # <<>>

\* a successful Search task found no source, the plan holds a Citations
\* task, and the report was returned without any citation
C37_Witness ==
    /\ NoSourceToCite
    /\ results.search_results # <<>>
    /\ NoCitationExecuted
    /\ pc = "done"
    /\ final_report[1].sources_found = 0


-----------------------------------------------------------------------------
(* _retry_with_backoff on an operation that fails, then succeeds *)

\* C39: an operation that fails k times with a transient failure, k being
\* less than the number of attempts allowed, and then succeeds: the failures
\* do not make _retry_with_backoff raise, and it returns after exactly
\* k + 1 calls of the operation.
C39_TransientThenSuccessReturns ==
    (AllTransientSignature /\ Len(rt.errs) < max_retries)
        => /\ rt.st # "raised"
           /\ rt.st = "returned" => rt.calls = Len(rt.errs) + 1

\* two transient failures, then the third call of the operation returned
C39_Witness ==
    /\ rt.st = "returned"
    /\ Len(rt.errs) = 2
    /\ AllTransientSignature
    /\ rt.calls = 3

=============================================================================
